---- MODULE Spec2Model ----
(***************************************************************************)
(* A model of pymatgen/electronic_structure/plotter.py.                    *)
(*                                                                         *)
(* DosPlotter is modelled as a state machine over its fields               *)
(* (zero_at_efermi, stack, sigma, _doses); BSPlotter as the band structure *)
(* it wraps plus the position of the get_ticks walk.  The matplotlib       *)
(* surface is modelled by what is handed to it: the curves, the vertical   *)
(* lines and the axis limits.  Python lists are sequences (index j of the  *)
(* code is index j + 1 here); k-point indices keep the code's 0-based      *)
(* numbering.  Energies and densities are integers.                        *)
(***************************************************************************)
EXTENDS Integers, Sequences, FiniteSets, TLC

VARIABLES
    zero_at_efermi,   \* DosPlotter.zero_at_efermi
    stack,            \* DosPlotter.stack
    sigma,            \* DosPlotter.sigma
    doses,            \* DosPlotter._doses, an OrderedDict: a sequence of entries
    history,          \* every add_dos call made so far: <<label, dos>> in call order
    ret,              \* the last call of the plotter and what it returned
    bs,               \* BSPlotter._bs
    tk,               \* the get_ticks walk: position and locals
    pyplot,           \* matplotlib.pyplot's current figure: what has been drawn on it
    settings,         \* the fields of a BSDOSPlotter
    bz                \* BoltztrapPlotter._bz

vars == <<zero_at_efermi, stack, sigma, doses, history, ret, bs, tk, pyplot, settings, bz>>

\* Python's None; an optional argument is None or a non-empty tuple, and an
\* optional number n is <<n>>.
None == <<>>

(***************************************************************************)
(* Bounds of the model.                                                    *)
(***************************************************************************)
GridLen == 2      \* points of the energy grid of a DOS
MaxAdds == 3      \* add_dos calls in one run
MaxDict == 2      \* labels in one add_dos_dict argument
NKpts == 4        \* k-points of a band structure

(***************************************************************************)
(* Generic helpers.                                                        *)
(***************************************************************************)
SetMin(S) == CHOOSE x \in S : \A y \in S : x <= y
SetMax(S) == CHOOSE x \in S : \A y \in S : x >= y
Range(s) == {s[i] : i \in DOMAIN s}
Reverse(s) == [i \in 1..Len(s) |-> s[Len(s) + 1 - i]]
Truthy(v) == v # None                      \* bool(v) of None or of a tuple
TruthyNum(v) == v # None /\ v[1] # 0       \* bool(v) of None or of a number
VecAdd(a, b) == [i \in 1..Len(a) |-> a[i] + b[i]]
Zeros(n) == [i \in 1..n |-> 0]

RECURSIVE Concat(_)
Concat(ss) == IF ss = <<>> THEN <<>> ELSE Head(ss) \o Concat(Tail(ss))

(***************************************************************************)
(* Spin (pymatgen.electronic_structure.core.Spin): int(spin), str(spin).   *)
(***************************************************************************)
Spin == {"up", "down"}
SpinOrder == <<"up", "down">>
SpinInt(s) == IF s = "up" THEN 1 ELSE -1
SpinStr(s) == IF s = "up" THEN "1" ELSE "-1"

(***************************************************************************)
(* The Dos objects handed to the plotter.                                  *)
(***************************************************************************)
Grid == [i \in 1..GridLen |-> i - 1]
DensA == [i \in 1..GridLen |-> i]
DensB == [i \in 1..GridLen |-> 2 * (GridLen - i)]
DensC == [i \in 1..GridLen |-> 3]

DosPool ==
    { [energies |-> Grid, efermi |-> 1, densities |-> [up |-> DensA]],
      [energies |-> Grid, efermi |-> 2, densities |-> [up |-> DensB, down |-> DensC]] }

Labels == {"a", "b", "c"}
LabelRank(l) == CASE l = "a" -> 1 [] l = "b" -> 2 [] l = "c" -> 3
Sigmas == {None, <<0>>, <<1>>}
XLimits == {None, <<-1, 4>>}
YLimits == {None, <<-9, 9>>, <<0, 2>>}

\* Dos.get_smeared_densities(sigma): every density becomes the sum of the
\* densities at most sigma grid points away (the Gaussian filter of the
\* collaborator, in integers and unnormalised); a kernel of width 0 leaves
\* the densities as they are.
get_smeared_densities(dos, sg) ==
    [s \in DOMAIN dos.densities |->
        [i \in 1..Len(dos.densities[s]) |->
            LET d == dos.densities[s]
                lo == IF i - sg < 1 THEN 1 ELSE i - sg
                hi == IF i + sg > Len(d) THEN Len(d) ELSE i + sg
                Wsum[j \in (lo - 1)..hi] ==
                    IF j < lo THEN 0 ELSE Wsum[j - 1] + d[j]
            IN  Wsum[hi]]]

(***************************************************************************)
(* DosPlotter.add_dos and add_dos_dict.                                    *)
(***************************************************************************)
LabelIndex(ds, label) ==
    IF \E i \in 1..Len(ds) : ds[i].label = label
    THEN CHOOSE i \in 1..Len(ds) : ds[i].label = label
    ELSE 0

\* OrderedSet, were a label that is set again moved to the end
OrderedSet_MoveToEnd(ds, label, value) ==
    LET e == [label |-> label] @@ value
        others == {i \in 1..Len(ds) : ds[i].label # label}
        Kept[i \in 0..Len(ds)] ==
            IF i = 0 THEN <<>>
            ELSE IF i \in others THEN Append(Kept[i - 1], ds[i]) ELSE Kept[i - 1]
    IN  Append(Kept[Len(ds)], e)

\* self._doses[label] = value on an OrderedDict
OrderedSet(ds, label, value) ==
    LET i == LabelIndex(ds, label)
        e == [label |-> label] @@ value
    IN  IF i = 0 THEN Append(ds, e) ELSE [ds EXCEPT ![i] = e]

\* DosEntry, were the energies shifted whatever zero_at_efermi is
DosEntry_AlwaysShift(dos, zero, sg) ==
    [energies  |-> [i \in 1..Len(dos.energies) |-> dos.energies[i] - dos.efermi],
     densities |-> IF TruthyNum(sg) THEN get_smeared_densities(dos, sg[1])
                   ELSE dos.densities,
     efermi    |-> dos.efermi]

\* lines 85-91: the entry add_dos stores
DosEntry(dos, zero, sg) ==
    [energies  |-> IF zero THEN [i \in 1..Len(dos.energies) |->
                                     dos.energies[i] - dos.efermi]
                   ELSE dos.energies,
     densities |-> IF TruthyNum(sg) THEN get_smeared_densities(dos, sg[1])
                   ELSE dos.densities,
     efermi    |-> dos.efermi]

add_dos(ds, label, dos, zero, sg) ==
    OrderedSet(ds, label, DosEntry(dos, zero, sg))

\* lines 106-107: for label in keys: self.add_dos(label, dos_dict[label])
RECURSIVE add_dos_dict(_, _, _, _, _)
add_dos_dict(ds, keys, dos_dict, zero, sg) ==
    IF keys = <<>> THEN ds
    ELSE add_dos_dict(add_dos(ds, Head(keys), dos_dict[Head(keys)], zero, sg),
                      Tail(keys), dos_dict, zero, sg)

\* the orders in which the keys of a dict may be iterated
KeyOrders(K) ==
    {p \in [1..Cardinality(K) -> K] : \A i, j \in DOMAIN p : i # j => p[i] # p[j]}

\* the key functions of the model: None, or a rank of the labels, ascending
\* or descending
KeySortFuncs == {None, <<"asc">>, <<"desc">>}
KeyOf(key_sort_func, l) ==
    IF key_sort_func = <<"asc">> THEN LabelRank(l) ELSE 0 - LabelRank(l)

\* sorted(dos_dict.keys(), key=key_sort_func)
SortedKeys(K, key_sort_func) ==
    CHOOSE p \in KeyOrders(K) :
        \A i, j \in DOMAIN p :
            i < j => KeyOf(key_sort_func, p[i]) < KeyOf(key_sort_func, p[j])

\* lines 102-105: the key orders add_dos_dict may walk
add_dos_dict_keys(K, key_sort_func) ==
    IF Truthy(key_sort_func) THEN {SortedKeys(K, key_sort_func)}
    ELSE KeyOrders(K)

(***************************************************************************)
(* DosPlotter.get_dos_dict: jsanitize turns every dict key into its str()  *)
(* and every array into a list.                                            *)
(***************************************************************************)
jsanitize_densities(d) ==
    [k \in {SpinStr(s) : s \in DOMAIN d} |->
        d[CHOOSE s \in DOMAIN d : SpinStr(s) = k]]

get_dos_dict(ds) ==
    [l \in {ds[i].label : i \in 1..Len(ds)} |->
        LET e == ds[LabelIndex(ds, l)]
        IN  [energies  |-> e.energies,
             densities |-> jsanitize_densities(e.densities),
             efermi    |-> e.efermi]]

(***************************************************************************)
(* The plotting surface.  An axis is the data plotted on it so far and its *)
(* limits, None until they are set; limits that were never set are the     *)
(* autoscaled ones, which enclose the data with a margin ((0, 1) on an     *)
(* empty axis).                                                            *)
(***************************************************************************)
AutoLim(data) ==
    IF data = {} THEN <<0, 1>> ELSE <<SetMin(data) - 1, SetMax(data) + 1>>

NewAxes == [xdata |-> {}, ydata |-> {}, xlim |-> None, ylim |-> None]
GetXlim(ax) == IF ax.xlim # None THEN ax.xlim ELSE AutoLim(ax.xdata)   \* plt.xlim()
GetYlim(ax) == IF ax.ylim # None THEN ax.ylim ELSE AutoLim(ax.ydata)   \* plt.ylim()
SetXlim(ax, lim) == [ax EXCEPT !.xlim = lim]                           \* plt.xlim(lim)
SetYlim(ax, lim) == [ax EXCEPT !.ylim = lim]                           \* plt.ylim(lim)
\* plt.plot(x, y) and plt.fill(x, y)
PlotData(ax, x, y) ==
    [ax EXCEPT !.xdata = @ \cup Range(x), !.ydata = @ \cup Range(y)]

(***************************************************************************)
(* DosPlotter.get_plot.                                                    *)
(***************************************************************************)
\* lines 149-156: y after the first k entries of _doses
RECURSIVE StackY(_, _, _)
StackY(ds, k, stk) ==
    IF k = 0 THEN [s \in Spin |-> Zeros(Len(ds[1].energies))]
    ELSE LET y == StackY(ds, k - 1, stk)
         IN  [s \in Spin |->
                 IF stk /\ s \in DOMAIN ds[k].densities
                 THEN VecAdd(y[s], ds[k].densities[s])
                 ELSE y[s]]

\* newdens, were the running sum stored without .copy(): every curve then
\* shares the final sum
newdens_NoCopy(ds, k, stk) ==
    [s \in DOMAIN ds[k].densities |->
        IF stk THEN StackY(ds, Len(ds), stk)[s] ELSE ds[k].densities[s]]

\* lines 152-159: newdens of the k-th entry
newdens(ds, k, stk) ==
    [s \in DOMAIN ds[k].densities |->
        IF stk THEN StackY(ds, k, stk)[s] ELSE ds[k].densities[s]]

\* lines 171-179: the x and y lists of one curve
RECURSIVE CurveX(_, _, _)
CurveX(energies, dens, spins) ==
    IF spins = <<>> THEN <<>>
    ELSE (IF Head(spins) \in DOMAIN dens
          THEN (IF Head(spins) = "down" THEN Reverse(energies) ELSE energies)
          ELSE <<>>) \o CurveX(energies, dens, Tail(spins))

RECURSIVE CurveY(_, _)
CurveY(dens, spins) ==
    IF spins = <<>> THEN <<>>
    ELSE (IF Head(spins) \in DOMAIN dens
          THEN LET d == [j \in 1..Len(dens[Head(spins)]) |->
                            SpinInt(Head(spins)) * dens[Head(spins)][j]]
               IN  IF Head(spins) = "down" THEN Reverse(d) ELSE d
          ELSE <<>>) \o CurveY(dens, Tail(spins))

NColors(ds) ==
    LET a == IF Len(ds) > 3 THEN Len(ds) ELSE 3 IN IF a < 9 THEN a ELSE 9

\* lines 163-192: the loop over the reversed keys; i is the code's index, st
\* the surface, the ylim variable and the points collected so far
RECURSIVE DrawLoop(_, _, _, _, _)
DrawLoop(ds, zero, stk, i, st) ==
    IF i = Len(ds) THEN st
    ELSE
      LET k     == Len(ds) - i
          dens  == newdens(ds, k, stk)
          x     == CurveX(ds[k].energies, dens, SpinOrder)
          y     == CurveY(dens, SpinOrder)
          color == i % NColors(ds)
          ax1   == PlotData(st.ax, x, y)
          ylim1 == IF ~zero THEN GetYlim(ax1) ELSE st.ylim
          ax2   == IF ~zero
                   THEN PlotData(ax1, <<ds[k].efermi, ds[k].efermi>>, ylim1)
                   ELSE ax1
      IN  DrawLoop(ds, zero, stk, i + 1,
            [ax     |-> ax2,
             ylim   |-> ylim1,
             curves |-> Append(st.curves,
                          [label |-> ds[k].label, densities |-> dens,
                           x |-> x, y |-> y, color |-> color,
                           kind |-> IF stk THEN "fill" ELSE "plot"]),
             vlines |-> IF ~zero
                        THEN Append(st.vlines,
                               [x |-> ds[k].efermi, y |-> ylim1, color |-> color])
                        ELSE st.vlines,
             allpts |-> st.allpts \cup {<<x[j], y[j]>> : j \in 1..Len(x)}])

\* lines 121-216: what get_plot(xlim, ylim) returns
Dos_get_plot(ds, zero, stk, xlim, ylim) ==
    LET st  == DrawLoop(ds, zero, stk, 0,
                 [ax |-> NewAxes, ylim |-> ylim, curves |-> <<>>,
                  vlines |-> <<>>, allpts |-> {}])
        ax1 == IF Truthy(xlim) THEN SetXlim(st.ax, xlim) ELSE st.ax
        xl  == GetXlim(ax1)
        relevanty == {p[2] : p \in {q \in st.allpts : xl[1] < q[1] /\ q[1] < xl[2]}}
    IN  IF ~Truthy(st.ylim) /\ relevanty = {}
        THEN [err |-> "ValueError"]                 \* min() of an empty list
        ELSE
          LET ax2 == IF Truthy(st.ylim) THEN SetYlim(ax1, st.ylim)
                     ELSE SetYlim(ax1, <<SetMin(relevanty), SetMax(relevanty)>>)
              ax3 == IF zero THEN PlotData(ax2, <<0, 0>>, GetYlim(ax2)) ELSE ax2
          IN  [err    |-> "",
               curves |-> st.curves,
               vlines |-> IF zero
                          THEN Append(st.vlines,
                                 [x |-> 0, y |-> GetYlim(ax2), color |-> "k"])
                          ELSE st.vlines,
               xlim   |-> GetXlim(ax3),
               ylim   |-> GetYlim(ax3)]

(***************************************************************************)
(* The DosPlotter state machine.                                           *)
(***************************************************************************)
InitDos ==
    /\ zero_at_efermi \in BOOLEAN
    /\ stack \in BOOLEAN
    /\ sigma \in Sigmas
    /\ doses = <<>>
    /\ history = <<>>
    /\ ret = [op |-> "init"]
    /\ bs = None
    /\ tk = None
    /\ pyplot = <<>>
    /\ settings = None
    /\ bz = None

AddDos ==
    \E label \in Labels, dos \in DosPool :
        /\ Len(history) < MaxAdds
        /\ doses' = add_dos(doses, label, dos, zero_at_efermi, sigma)
        /\ history' = Append(history, <<label, dos>>)
        /\ ret' = [op |-> "add_dos"]
        /\ UNCHANGED <<bz, settings, pyplot, zero_at_efermi, stack, sigma, bs, tk>>

AddDosDict ==
    \E K \in SUBSET Labels, key_sort_func \in KeySortFuncs :
        /\ Cardinality(K) <= MaxDict
        /\ Len(history) + Cardinality(K) <= MaxAdds
        /\ \E dos_dict \in [K -> DosPool] :
             \E keys \in add_dos_dict_keys(K, key_sort_func) :
                /\ doses' = add_dos_dict(doses, keys, dos_dict,
                                         zero_at_efermi, sigma)
                /\ history' = history \o
                       [j \in 1..Len(keys) |-> <<keys[j], dos_dict[keys[j]]>>]
        /\ ret' = [op |-> "add_dos_dict"]
        /\ UNCHANGED <<bz, settings, pyplot, zero_at_efermi, stack, sigma, bs, tk>>

GetDosDict ==
    /\ ret' = [op |-> "get_dos_dict", value |-> get_dos_dict(doses)]
    /\ UNCHANGED <<bz, settings, pyplot, zero_at_efermi, stack, sigma, doses, history, bs, tk>>

GetPlot ==
    \E xlim \in XLimits, ylim \in YLimits :
        /\ ret' = [op |-> "get_plot", xlim |-> xlim, ylim |-> ylim,
                   value |-> Dos_get_plot(doses, zero_at_efermi, stack, xlim, ylim)]
        /\ UNCHANGED <<bz, settings, pyplot, zero_at_efermi, stack, sigma, doses, history, bs, tk>>

NextDos == AddDos \/ AddDosDict \/ GetDosDict \/ GetPlot

SpecDos == InitDos /\ [][NextDos]_vars

(***************************************************************************)
(* The band structure wrapped by BSPlotter.  A k-point label is None or a  *)
(* non-empty sequence of characters; labels, distance and the bands are    *)
(* indexed by the 0-based k-point index; a branch is                       *)
(* [start_index, end_index, name].  is_metal, vbm and cbm hold what        *)
(* bs.is_metal(), bs.get_vbm() and bs.get_cbm() return.                    *)
(***************************************************************************)
KIdx == 0..(NKpts - 1)
LabelPool == { <<"G">>, <<"\\", "S">>, <<"K", "_", "1">> }

\* the branches cut out of the k-point list by a set of cut points
RECURSIVE BranchesFrom(_, _, _)
BranchesFrom(cuts, start, n) ==
    LET later == {c \in cuts : c > start}
        end   == IF later = {} THEN NKpts - 1 ELSE SetMin(later) - 1
    IN  <<[start_index |-> start, end_index |-> end, name |-> <<"branch", n>>]>>
        \o (IF later = {} THEN <<>>
            ELSE BranchesFrom(cuts, SetMin(later), n + 1))

\* arc length: it does not grow across the jump from a branch to the next
\* one when plateau holds, and grows by one at every k-point otherwise
PathDistance(cuts, plateau) ==
    [j \in KIdx |->
        IF plateau THEN j - Cardinality({c \in cuts : c <= j}) ELSE j]

\* every path of NKpts k-points whose branches start and end at a labelled
\* k-point
Paths ==
    { [labels |-> l, branches |-> BranchesFrom(cuts, 0, 1),
       distance |-> PathDistance(cuts, plateau)] :
        <<l, cuts, plateau>> \in
            { x \in [KIdx -> LabelPool \cup {None}]
                    \X (SUBSET (1..(NKpts - 1))) \X BOOLEAN :
                /\ x[1][0] # None /\ x[1][NKpts - 1] # None
                /\ \A c \in x[2] : x[1][c] # None /\ x[1][c - 1] # None } }

\* the two paths of the band structures that carry bands: one branch, and
\* two branches with a jump after k-point 1
OneBranchPath ==
    [labels   |-> [j \in KIdx |-> IF j = 0 THEN <<"G">>
                                  ELSE IF j = NKpts - 1 THEN <<"\\", "S">>
                                  ELSE None],
     branches |-> BranchesFrom({}, 0, 1),
     distance |-> PathDistance({}, TRUE)]
TwoBranchPath ==
    [labels   |-> [j \in KIdx |-> IF j = 0 THEN <<"G">>
                                  ELSE IF j = 1 THEN <<"K", "_", "1">>
                                  ELSE IF j = 2 THEN <<"\\", "S">>
                                  ELSE IF j = NKpts - 1 THEN <<"G">>
                                  ELSE None],
     branches |-> BranchesFrom({2}, 0, 1),
     distance |-> PathDistance({2}, TRUE)]

\* band data: an insulator (valence band below, conduction band above the
\* Fermi level), with and without a spin-down channel, and a metal
Valence == [j \in KIdx |-> (j % 2) - 2]
Conduction == [j \in KIdx |-> 3 - (j % 2)]
Crossing == [j \in KIdx |-> j - 1]
BandData ==
    { [bands |-> [up |-> <<Valence, Conduction>>], nb_bands |-> 2, efermi |-> 0,
       is_metal |-> FALSE,
       vbm |-> [energy |-> <<-1>>, kpoint_index |-> <<1>>],
       cbm |-> [energy |-> <<2>>, kpoint_index |-> <<1>>]],
      [bands |-> [up |-> <<Valence, Conduction>>,
                  down |-> <<[j \in KIdx |-> -3], [j \in KIdx |-> 4 + j]>>],
       nb_bands |-> 2, efermi |-> 1,
       is_metal |-> FALSE,
       vbm |-> [energy |-> <<-1>>, kpoint_index |-> <<1>>],
       cbm |-> [energy |-> <<2>>, kpoint_index |-> <<1>>]],
      [bands |-> [up |-> <<Crossing>>], nb_bands |-> 1, efermi |-> 1,
       is_metal |-> TRUE,
       vbm |-> [energy |-> None, kpoint_index |-> <<>>],
       cbm |-> [energy |-> None, kpoint_index |-> <<>>]],
      [bands |-> [up |-> <<Crossing>>, down |-> <<Conduction>>],
       nb_bands |-> 1, efermi |-> 1,
       is_metal |-> TRUE,
       vbm |-> [energy |-> None, kpoint_index |-> <<>>],
       cbm |-> [energy |-> None, kpoint_index |-> <<>>]] }

NoBands ==
    [bands |-> [up |-> <<>>], nb_bands |-> 0, efermi |-> 0, is_metal |-> TRUE,
     vbm |-> [energy |-> None, kpoint_index |-> <<>>],
     cbm |-> [energy |-> None, kpoint_index |-> <<>>]]

is_spin_polarized(b) == "down" \in DOMAIN b.bands

(***************************************************************************)
(* BSPlotter.get_ticks.                                                    *)
(***************************************************************************)
\* label.startswith("\\") or label.find("_") != -1
NeedsMath(label) == label[1] = "\\" \/ "_" \in Range(label)
Dollar(label) == IF NeedsMath(label) THEN <<"$">> \o label \o <<"$">> ELSE label
Mid == <<"$", "\\", "m", "i", "d", "$">>
Pop(s) == SubSeq(s, 1, Len(s) - 1)

\* lines 614-618: the name of the first branch that holds k-point i
BranchOf(b, i) ==
    LET holds == {n \in 1..Len(b.branches) :
                     b.branches[n].start_index <= i /\ i <= b.branches[n].end_index}
    IN  IF holds = {} THEN None ELSE b.branches[SetMin(holds)].name

\* lines 607-610: the locals before the loop
TickStart(b) ==
    [pc |-> "loop", i |-> 0, tick_distance |-> <<>>, tick_labels |-> <<>>,
     previous_label |-> b.labels[0], previous_branch |-> b.branches[1].name]

\* TickStep, were the previous tick's distance popped instead of the new one
TickStep_KeepsOwnDistance(b, t) ==
    LET i == t.i
        c == b.labels[i]
        this_branch == BranchOf(b, i)
    IN  IF c = None THEN [t EXCEPT !.i = i + 1]
        ELSE IF c # t.previous_label /\ t.previous_branch # this_branch
        THEN [pc |-> "loop", i |-> i + 1,
              tick_distance |-> Append(Pop(t.tick_distance), b.distance[i]),
              tick_labels |-> Append(Pop(t.tick_labels),
                                Dollar(t.previous_label) \o Mid \o Dollar(c)),
              previous_label |-> c, previous_branch |-> this_branch]
        ELSE [pc |-> "loop", i |-> i + 1,
              tick_distance |-> Append(t.tick_distance, b.distance[i]),
              tick_labels |-> Append(t.tick_labels, Dollar(c)),
              previous_label |-> c, previous_branch |-> this_branch]

\* TickStep, were tick_distance.pop() left out of the merge
TickStep_NoDistancePop(b, t) ==
    LET i == t.i
        c == b.labels[i]
        this_branch == BranchOf(b, i)
    IN  IF c = None THEN [t EXCEPT !.i = i + 1]
        ELSE IF c # t.previous_label /\ t.previous_branch # this_branch
        THEN [pc |-> "loop", i |-> i + 1,
              tick_distance |-> Append(t.tick_distance, b.distance[i]),
              tick_labels |-> Append(Pop(t.tick_labels),
                                Dollar(t.previous_label) \o Mid \o Dollar(c)),
              previous_label |-> c, previous_branch |-> this_branch]
        ELSE [pc |-> "loop", i |-> i + 1,
              tick_distance |-> Append(t.tick_distance, b.distance[i]),
              tick_labels |-> Append(t.tick_labels, Dollar(c)),
              previous_label |-> c, previous_branch |-> this_branch]

\* lines 611-636: one iteration of the loop, at k-point t.i
TickStep(b, t) ==
    LET i == t.i
        c == b.labels[i]
        this_branch == BranchOf(b, i)
        td == Append(t.tick_distance, b.distance[i])
    IN  IF c = None THEN [t EXCEPT !.i = i + 1]
        ELSE IF c # t.previous_label /\ t.previous_branch # this_branch
        THEN IF t.previous_label = None
             THEN [t EXCEPT !.pc = "AttributeError"]
             ELSE IF t.tick_labels = <<>>
             THEN [t EXCEPT !.pc = "IndexError"]
             ELSE [pc |-> "loop", i |-> i + 1,
                   tick_distance |-> Pop(td),
                   tick_labels |-> Append(Pop(t.tick_labels),
                                     Dollar(t.previous_label) \o Mid \o Dollar(c)),
                   previous_label |-> c, previous_branch |-> this_branch]
        ELSE [pc |-> "loop", i |-> i + 1,
              tick_distance |-> td,
              tick_labels |-> Append(t.tick_labels, Dollar(c)),
              previous_label |-> c, previous_branch |-> this_branch]

\* line 637
TickResult(t) ==
    IF t.pc = "loop"
    THEN [err |-> "", distance |-> t.tick_distance, label |-> t.tick_labels]
    ELSE [err |-> t.pc]

RECURSIVE TickWalk(_, _)
TickWalk(b, t) ==
    IF t.pc # "loop" \/ t.i = NKpts THEN t ELSE TickWalk(b, TickStep(b, t))

get_ticks(b) == TickResult(TickWalk(b, TickStart(b)))

Idle == [pc |-> "idle"]

\* no DosPlotter is in use
NoDos ==
    /\ zero_at_efermi = TRUE /\ stack = FALSE /\ sigma = None
    /\ doses = <<>> /\ history = <<>>

InitTicks ==
    /\ NoDos
    /\ bs \in {p @@ NoBands : p \in Paths}
    /\ tk = Idle
    /\ ret = [op |-> "init"]
    /\ pyplot = <<>>
    /\ settings = None
    /\ bz = None

TicksCall ==
    /\ tk.pc = "idle"
    /\ tk' = TickStart(bs)
    /\ ret' = [op |-> "call"]
    /\ UNCHANGED <<bz, settings, pyplot, zero_at_efermi, stack, sigma, doses, history, bs>>

TicksLoop ==
    /\ tk.pc = "loop" /\ tk.i < NKpts
    /\ tk' = TickStep(bs, tk)
    /\ UNCHANGED <<bz, settings, pyplot, zero_at_efermi, stack, sigma, doses, history, ret, bs>>

TicksReturn ==
    /\ tk.pc # "idle" /\ (tk.pc = "loop" => tk.i = NKpts)
    /\ ret' = [op |-> "get_ticks", value |-> TickResult(tk)]
    /\ tk' = Idle
    /\ UNCHANGED <<bz, settings, pyplot, zero_at_efermi, stack, sigma, doses, history, bs>>

NextTicks == TicksCall \/ TicksLoop \/ TicksReturn

SpecTicks == InitTicks /\ [][NextTicks]_vars

(***************************************************************************)
(* BSPlotter.bs_plot_data, _maketicks, get_plot and show.                  *)
(***************************************************************************)
\* BranchRange, were the last k-point of the branch left out
BranchRange_Exclusive(br) ==
    [j \in 1..(br.end_index - br.start_index) |-> br.start_index + j - 1]

\* range(b['start_index'], b['end_index'] + 1)
BranchRange(br) ==
    [j \in 1..(br.end_index - br.start_index + 1) |-> br.start_index + j - 1]

\* lines 344-350
ZeroEnergy(b, zero_to_efermi) ==
    IF ~zero_to_efermi THEN 0
    ELSE IF b.is_metal THEN b.efermi ELSE b.vbm.energy[1]

\* lines 376-387: vbm_plot and cbm_plot
EdgePlot(b, edge, zero_to_efermi) ==
    [n \in 1..Len(edge.kpoint_index) |->
        <<b.distance[edge.kpoint_index[n]],
          IF zero_to_efermi
          THEN edge.energy[1] - ZeroEnergy(b, zero_to_efermi)
          ELSE edge.energy[1]>>]

\* lines 342-401 (the lattice and the band gap text are not modelled)
bs_plot_data(b, zero_to_efermi) ==
    LET zero_energy == ZeroEnergy(b, zero_to_efermi)
        Shifted(spin, br) ==
            [i \in 1..b.nb_bands |->
                [j \in 1..Len(BranchRange(br)) |->
                    b.bands[spin][i][BranchRange(br)[j]] - zero_energy]]
    IN  [ticks     |-> get_ticks(b),
         distances |-> [n \in 1..Len(b.branches) |->
                          [j \in 1..Len(BranchRange(b.branches[n])) |->
                              b.distance[BranchRange(b.branches[n])[j]]]],
         energy    |-> [n \in 1..Len(b.branches) |->
                          IF is_spin_polarized(b)
                          THEN (SpinStr("up") :> Shifted("up", b.branches[n]))
                               @@ (SpinStr("down") :> Shifted("down", b.branches[n]))
                          ELSE (SpinStr("up") :> Shifted("up", b.branches[n]))],
         vbm       |-> EdgePlot(b, b.vbm, zero_to_efermi),
         cbm       |-> EdgePlot(b, b.cbm, zero_to_efermi),
         zero_energy |-> zero_energy,
         is_metal  |-> b.is_metal]

\* UniqTicks, were a tick with the label of the one before it kept
UniqTicks_KeepsAll(ticks, i) == [n \in 1..i |-> n]

\* lines 268-310: the x ticks, their labels and the vertical lines
RECURSIVE UniqTicks(_, _)
UniqTicks(ticks, i) ==
    IF i = 0 THEN <<>>
    ELSE IF i = 1 \/ ticks.label[i] # ticks.label[i - 1]
         THEN Append(UniqTicks(ticks, i - 1), i)
         ELSE UniqTicks(ticks, i - 1)

RECURSIVE TickLines(_, _)
TickLines(ticks, i) ==
    IF i = 0 THEN <<>>
    ELSE IF ticks.label[i] # None
            /\ (i = 1 \/ ticks.label[i] # ticks.label[i - 1])
         THEN Append(TickLines(ticks, i - 1), ticks.distance[i])
         ELSE TickLines(ticks, i - 1)

maketicks(b) ==
    LET ticks == get_ticks(b)
        keep  == UniqTicks(ticks, Len(ticks.label))
    IN  [xticks      |-> [n \in 1..Len(keep) |-> ticks.distance[keep[n]]],
         xticklabels |-> [n \in 1..Len(keep) |-> ticks.label[keep[n]]],
         vlines      |-> TickLines(ticks, Len(ticks.label))]

\* lines 439-514: the curves of one branch and one band; a smoothed curve is
\* the spline fitted to the data with tolerance s
BandCurves(b, data, d, i, smooth, smooth_tol) ==
    LET Curve(spin, style) ==
            [x |-> data.distances[d],
             y |-> [j \in 1..Len(data.distances[d]) |->
                       data.energy[d][SpinStr(spin)][i][j]],
             style |-> style,
             kind |-> IF smooth THEN "spline" ELSE "line",
             s |-> IF smooth THEN smooth_tol ELSE None]
    IN  <<Curve("up", "b-")>>
        \o (IF is_spin_polarized(b) THEN <<Curve("down", "r--")>> ELSE <<>>)

\* EnergyWindow, were the window of a metal not widened
EnergyWindow_NoMetal(b) == <<-4, 4>>

\* lines 430-434: e_min and e_max
EnergyWindow(b) == IF b.is_metal THEN <<-10, 10>> ELSE <<-4, 4>>

\* lines 403-564
BS_get_plot(b, zero_to_efermi, ylim, smooth, vbm_cbm_marker, smooth_tol) ==
    LET e_min == EnergyWindow(b)[1]
        e_max == EnergyWindow(b)[2]
        data  == bs_plot_data(b, zero_to_efermi)
        last  == data.distances[Len(data.distances)]
        mark  == ylim = None /\ ~b.is_metal /\ vbm_cbm_marker
    IN  [curves  |-> Concat([d \in 1..Len(data.distances) |->
                        Concat([i \in 1..b.nb_bands |->
                            BandCurves(b, data, d, i, smooth, smooth_tol)])]),
         ticks   |-> maketicks(b),
         ylabel  |-> IF zero_to_efermi THEN "E - E_f (eV)" ELSE "Energy (eV)",
         hlines  |-> IF ~zero_to_efermi THEN <<b.efermi>> ELSE <<>>,
         markers |-> IF mark THEN data.cbm \o data.vbm ELSE <<>>,
         xlim    |-> <<0, last[Len(last)]>>,
         ylim    |-> IF ylim = None
                     THEN IF b.is_metal
                          THEN IF zero_to_efermi THEN <<e_min, e_max>>
                               ELSE <<b.efermi + e_min, b.efermi + e_max>>
                          ELSE <<data.vbm[1][2] + e_min, data.cbm[1][2] + e_max>>
                     ELSE ylim]

\* lines 566-582: plt = self.get_plot(zero_to_efermi, ylim, smooth)
BS_show(b, zero_to_efermi, ylim, smooth, smooth_tol) ==
    BS_get_plot(b, zero_to_efermi, ylim, smooth, FALSE, None)

BandStructures == {p @@ d : p \in {OneBranchPath, TwoBranchPath}, d \in BandData}
BSLimits == {None, <<-3, 3>>}
Tolerances == {None, <<1>>}

InitBS ==
    /\ NoDos
    /\ bs \in BandStructures
    /\ tk = Idle
    /\ ret = [op |-> "init"]
    /\ pyplot = <<>>
    /\ settings = None
    /\ bz = None

BsPlotData ==
    \E zero_to_efermi \in BOOLEAN :
        /\ ret' = [op |-> "bs_plot_data", zero_to_efermi |-> zero_to_efermi,
                   value |-> bs_plot_data(bs, zero_to_efermi)]
        /\ UNCHANGED <<bz, settings, pyplot, zero_at_efermi, stack, sigma, doses, history, bs, tk>>

BsGetPlot ==
    \E zero_to_efermi \in BOOLEAN, ylim \in BSLimits, smooth \in BOOLEAN,
       vbm_cbm_marker \in BOOLEAN, smooth_tol \in Tolerances :
        /\ ret' = [op |-> "BSPlotter.get_plot",
                   zero_to_efermi |-> zero_to_efermi, ylim |-> ylim,
                   smooth |-> smooth, vbm_cbm_marker |-> vbm_cbm_marker,
                   smooth_tol |-> smooth_tol,
                   value |-> BS_get_plot(bs, zero_to_efermi, ylim, smooth,
                                         vbm_cbm_marker, smooth_tol)]
        /\ UNCHANGED <<bz, settings, pyplot, zero_at_efermi, stack, sigma, doses, history, bs, tk>>

BsShow ==
    \E zero_to_efermi \in BOOLEAN, ylim \in BSLimits, smooth \in BOOLEAN,
       smooth_tol \in Tolerances :
        /\ ret' = [op |-> "BSPlotter.show",
                   zero_to_efermi |-> zero_to_efermi, ylim |-> ylim,
                   smooth |-> smooth, smooth_tol |-> smooth_tol,
                   value |-> BS_show(bs, zero_to_efermi, ylim, smooth, smooth_tol)]
        /\ UNCHANGED <<bz, settings, pyplot, zero_at_efermi, stack, sigma, doses, history, bs, tk>>

NextBS == BsPlotData \/ BsGetPlot \/ BsShow

SpecBS == InitBS /\ [][NextBS]_vars

(***************************************************************************)
(* Claims about DosPlotter.                                                *)
(***************************************************************************)
EntryLabels(ds) == [i \in 1..Len(ds) |-> ds[i].label]

\* the labels of the add_dos calls, each at its first call
RECURSIVE FirstLabels(_)
FirstLabels(h) ==
    IF h = <<>> THEN <<>>
    ELSE LET r == FirstLabels(SubSeq(h, 1, Len(h) - 1))
             l == h[Len(h)][1]
         IN  IF l \in Range(r) THEN r ELSE Append(r, l)

\* the Dos of the most recent add_dos call for a label
LastDos(h, l) ==
    h[CHOOSE i \in 1..Len(h) :
          h[i][1] = l /\ \A j \in (i + 1)..Len(h) : h[j][1] # l][2]

RECURSIVE SumDensities(_, _, _, _)
SumDensities(ds, I, s, e) ==
    IF I = {} THEN 0
    ELSE LET i == CHOOSE i \in I : TRUE
         IN  ds[i].densities[s][e] + SumDensities(ds, I \ {i}, s, e)

\* the stacked density of spin s at grid point e for the k-th entry
StackedDensity(ds, k, s, e) ==
    SumDensities(ds, {i \in 1..k : s \in DOMAIN ds[i].densities}, s, e)

\* where the point of spin s and grid point e sits in the x and y lists of a
\* curve: spin up first, then spin down in reverse order
PointIndex(dens, s, e) ==
    IF s = "up" THEN e
    ELSE (IF "up" \in DOMAIN dens THEN Len(dens["up"]) ELSE 0)
         + Len(dens["down"]) + 1 - e

\* C1: get_plot draws one curve per stored DOS; with stack=True the densities
\* drawn for the k-th added DOS and a spin it contains are the element-wise
\* sum of the densities of those of the first k DOSes that contain the spin,
\* with stack=False they are the DOS's own densities (the drawn y value is
\* that density times int(spin), at the DOS's energy).
C1_StackedCurves ==
    (ret.op = "get_plot" /\ ret.value.err = "") =>
        /\ Len(ret.value.curves) = Len(doses)
        /\ \A k \in 1..Len(doses) :
             LET c == ret.value.curves[Len(doses) + 1 - k]
                 d == doses[k].densities
             IN  /\ c.label = doses[k].label
                 /\ DOMAIN c.densities = DOMAIN d
                 /\ Len(c.y) = Len(c.x)
                 /\ \A s \in DOMAIN d : \A e \in 1..Len(d[s]) :
                      LET want == IF stack THEN StackedDensity(doses, k, s, e)
                                  ELSE d[s][e]
                          p == PointIndex(d, s, e)
                      IN  /\ c.densities[s][e] = want
                          /\ c.y[p] = SpinInt(s) * want
                          /\ c.x[p] = doses[k].energies[e]

\* a stacked plot of three DOSes, the second without the spin-down channel
C1_Witness ==
    /\ ret.op = "get_plot" /\ ret.value.err = ""
    /\ stack /\ Len(doses) = 3
    /\ "down" \in DOMAIN doses[1].densities
    /\ "down" \notin DOMAIN doses[2].densities
    /\ "down" \in DOMAIN doses[3].densities

\* C6: the plotter holds exactly one entry per distinct label, in the order
\* of the labels' first add, each holding the data of the label's most
\* recent add.
C6_UniqueLabels ==
    /\ EntryLabels(doses) = FirstLabels(history)
    /\ \A i, j \in 1..Len(doses) : i # j => doses[i].label # doses[j].label
    /\ \A i \in 1..Len(doses) :
         doses[i] = [label |-> doses[i].label]
                    @@ DosEntry(LastDos(history, doses[i].label),
                                zero_at_efermi, sigma)

\* a label added again with other data, after another label
C6_Witness ==
    /\ Len(history) = 3 /\ Len(doses) = 2
    /\ history[1][1] = history[3][1]
    /\ history[1][2] # history[3][2]

\* C7: a stored entry, and its image in get_dos_dict, has energies
\* dos.energies - dos.efermi when zero_at_efermi and dos.energies otherwise,
\* the smeared densities when sigma was given and dos.densities otherwise,
\* and dos.efermi unshifted.
C7_StoredData ==
    \A i \in 1..Len(doses) :
        LET dos  == LastDos(history, doses[i].label)
            energies == IF zero_at_efermi
                        THEN [e \in 1..Len(dos.energies) |->
                                 dos.energies[e] - dos.efermi]
                        ELSE dos.energies
            densities == IF sigma = None THEN dos.densities
                         ELSE get_smeared_densities(dos, sigma[1])
        IN  /\ doses[i].energies = energies
            /\ doses[i].densities = densities
            /\ doses[i].efermi = dos.efermi
            /\ ret.op = "get_dos_dict" =>
                 /\ DOMAIN ret.value = Range(EntryLabels(doses))
                 /\ LET out == ret.value[doses[i].label]
                    IN  /\ out.energies = energies
                        /\ out.efermi = dos.efermi
                        /\ DOMAIN out.densities =
                               {SpinStr(s) : s \in DOMAIN dos.densities}
                        /\ \A s \in DOMAIN dos.densities :
                               out.densities[SpinStr(s)] = densities[s]

\* get_dos_dict of a plotter that shifts and smears: the stored energies and
\* densities both differ from the Dos's own
C7_Witness ==
    /\ ret.op = "get_dos_dict"
    /\ zero_at_efermi /\ sigma # None
    /\ Len(doses) = 2
    /\ \E i \in 1..2 :
         LET dos == LastDos(history, doses[i].label)
         IN  /\ "down" \in DOMAIN dos.densities
             /\ doses[i].energies # dos.energies
             /\ doses[i].densities # dos.densities
             /\ ret.value[doses[i].label].densities["-1"] # dos.densities["down"]

\* C8: get_plot called with an explicit ylim returns a plot whose y-axis
\* limits are that ylim, whatever zero_at_efermi is.
C8_YlimRespected ==
    (ret.op = "get_plot" /\ ret.ylim # None /\ Len(doses) >= 1) =>
        (ret.value.err = "" /\ ret.value.ylim = ret.ylim)

\* C8 where the code keeps it: with zero_at_efermi=True
C8_YlimRespectedAtZero ==
    (ret.op = "get_plot" /\ ret.ylim # None /\ Len(doses) >= 1
        /\ zero_at_efermi) =>
        (ret.value.err = "" /\ ret.value.ylim = ret.ylim)

(***************************************************************************)
(* Claims about BSPlotter.                                                 *)
(***************************************************************************)
Labelled(b) == {j \in KIdx : b.labels[j] # None}

\* the last labelled k-point before k-point i, -1 when there is none
PrevLabelled(b, i) ==
    LET before == {j \in Labelled(b) : j < i}
    IN  IF before = {} THEN -1 ELSE SetMax(before)

\* k-point i is labelled, and both its label and its branch differ from
\* those of the labelled k-point before it
IsMerge(b, i) ==
    /\ b.labels[i] # None
    /\ PrevLabelled(b, i) # -1
    /\ b.labels[i] # b.labels[PrevLabelled(b, i)]
    /\ BranchOf(b, i) # BranchOf(b, PrevLabelled(b, i))

\* a label as it is shown: between $ signs when it starts with a backslash
\* or contains an underscore
Shown(label) ==
    IF label[1] = "\\" \/ \E n \in 1..Len(label) : label[n] = "_"
    THEN <<"$">> \o label \o <<"$">>
    ELSE label

\* C2: one step of the get_ticks walk.  At a labelled k-point whose label
\* and branch both differ from the previous labelled k-point's, no tick is
\* added: the last tick keeps its distance and its label becomes
\* prev$\mid$cur; any other labelled k-point appends one tick at its own
\* distance with its own label; an unlabelled k-point adds nothing.
C2_TickWalk ==
    [][ (tk.pc = "loop" /\ tk.i < NKpts /\ tk' # tk) =>
          LET i == tk.i
              c == bs.labels[i]
              n == Len(tk.tick_labels)
          IN  /\ tk'.pc = "loop" /\ tk'.i = i + 1
              /\ IF c = None
                 THEN /\ tk'.tick_distance = tk.tick_distance
                      /\ tk'.tick_labels = tk.tick_labels
                 ELSE IF IsMerge(bs, i)
                 THEN /\ tk'.tick_distance = tk.tick_distance
                      /\ Len(tk'.tick_labels) = n
                      /\ SubSeq(tk'.tick_labels, 1, n - 1)
                             = SubSeq(tk.tick_labels, 1, n - 1)
                      /\ tk'.tick_labels[n] =
                             Shown(bs.labels[PrevLabelled(bs, i)])
                             \o <<"$", "\\", "m", "i", "d", "$">> \o Shown(c)
                 ELSE /\ tk'.tick_distance
                             = Append(tk.tick_distance, bs.distance[i])
                      /\ tk'.tick_labels = Append(tk.tick_labels, Shown(c))
      ]_vars

\* the walk has just merged a label shown between $ signs into the tick of
\* the previous labelled k-point, which lies at another distance
C2_Witness ==
    /\ tk.pc = "loop" /\ tk.i >= 1
    /\ IsMerge(bs, tk.i - 1)
    /\ bs.labels[tk.i - 1][1] = "\\"
    /\ bs.distance[tk.i - 1] # bs.distance[PrevLabelled(bs, tk.i - 1)]
    /\ tk.tick_labels[Len(tk.tick_labels)][1] # "$"

C4_FermiReference ==
    ret.op = "bs_plot_data" =>
        LET zero == IF ret.zero_to_efermi THEN bs.efermi ELSE 0
        IN  /\ ret.value.zero_energy = zero
            /\ \A n \in 1..Len(bs.branches) : \A s \in DOMAIN bs.bands :
                 \A i \in 1..bs.nb_bands :
                   \A j \in 1..Len(ret.value.energy[n][SpinStr(s)][i]) :
                     ret.value.energy[n][SpinStr(s)][i][j] =
                       bs.bands[s][i][bs.branches[n].start_index + j - 1] - zero

\* C4 where the code keeps it: for a metal, and with zero_to_efermi=False
C4_FermiReferenceMetal ==
    (ret.op = "bs_plot_data" /\ (bs.is_metal \/ ~ret.zero_to_efermi)) =>
        LET zero == IF ret.zero_to_efermi THEN bs.efermi ELSE 0
        IN  /\ ret.value.zero_energy = zero
            /\ \A n \in 1..Len(bs.branches) : \A s \in DOMAIN bs.bands :
                 \A i \in 1..bs.nb_bands :
                   \A j \in 1..Len(ret.value.energy[n][SpinStr(s)][i]) :
                     ret.value.energy[n][SpinStr(s)][i][j] =
                       bs.bands[s][i][bs.branches[n].start_index + j - 1] - zero

\* C5: bs_plot_data stores the data by branch: one entry of 'distances' and
\* of 'energy' per branch, in branch order; the distance list and every
\* band's energy list of branch b have end_index - start_index + 1 entries,
\* entry j belonging to k-point start_index + j; every branch entry has
\* nb_bands bands for spin up, and a spin-down key (with nb_bands bands)
\* exactly when the band structure is spin-polarized.
C5_ByBranch ==
    ret.op = "bs_plot_data" =>
        /\ Len(ret.value.distances) = Len(bs.branches)
        /\ Len(ret.value.energy) = Len(bs.branches)
        /\ \A n \in 1..Len(bs.branches) :
             LET br  == bs.branches[n]
                 len == br.end_index - br.start_index + 1
                 e   == ret.value.energy[n]
             IN  /\ Len(ret.value.distances[n]) = len
                 /\ \A j \in 0..(len - 1) :
                      ret.value.distances[n][j + 1]
                          = bs.distance[br.start_index + j]
                 /\ DOMAIN e = {SpinStr(s) : s \in DOMAIN bs.bands}
                 /\ ("-1" \in DOMAIN e) <=> ("down" \in DOMAIN bs.bands)
                 /\ "1" \in DOMAIN e
                 /\ \A s \in DOMAIN bs.bands :
                      /\ Len(e[SpinStr(s)]) = bs.nb_bands
                      /\ \A i \in 1..bs.nb_bands :
                           /\ Len(e[SpinStr(s)][i]) = len
                           /\ \A j \in 0..(len - 1) :
                                e[SpinStr(s)][i][j + 1] =
                                    bs.bands[s][i][br.start_index + j]
                                    - ret.value.zero_energy

\* the data of a spin-polarized band structure with two branches
C5_Witness ==
    /\ ret.op = "bs_plot_data"
    /\ Len(bs.branches) = 2
    /\ "down" \in DOMAIN bs.bands /\ bs.nb_bands = 2
    /\ Len(ret.value.energy[2]["-1"][2]) = NKpts - 2

\* the energy that is plotted as zero: what the first plotted point lies
\* below its eigenvalue
PlottedZero(plot) == bs.bands["up"][1][0] - plot.curves[1].y[1]

\* C9: with ylim=None get_plot chooses (VBM - 4, CBM + 4) for an insulator
\* and (efermi - 10, efermi + 10) for a metal, in the plotted energy
\* reference; with ylim given the y-limits are ylim.
C9_EnergyWindow ==
    ret.op = "BSPlotter.get_plot" =>
        LET zero == PlottedZero(ret.value)
        IN  /\ ret.ylim # None => ret.value.ylim = ret.ylim
            /\ (ret.ylim = None /\ bs.is_metal) =>
                 /\ ret.value.ylim = <<bs.efermi - zero - 10, bs.efermi - zero + 10>>
                 /\ ret.zero_to_efermi => ret.value.ylim = <<-10, 10>>
            /\ (ret.ylim = None /\ ~bs.is_metal) =>
                 ret.value.ylim = <<bs.vbm.energy[1] - zero - 4,
                                    bs.cbm.energy[1] - zero + 4>>

\* an insulator plotted relative to a non-zero reference, and a metal
C9_Witness ==
    /\ ret.op = "BSPlotter.get_plot" /\ ret.ylim = None
    /\ ~bs.is_metal /\ ret.zero_to_efermi
    /\ PlottedZero(ret.value) # 0
    /\ ret.value.ylim = <<-4, 7>>

\* C10: show(zero_to_efermi, ylim, smooth, smooth_tol) displays the plot
\* that get_plot returns for the same four arguments.
C10_ShowIsGetPlot ==
    ret.op = "BSPlotter.show" =>
        ret.value = BS_get_plot(bs, ret.zero_to_efermi, ret.ylim, ret.smooth,
                                FALSE, ret.smooth_tol)

\* C10 where the code keeps it: without smoothing, or with smooth_tol=None
C10_ShowIsGetPlotNoTol ==
    (ret.op = "BSPlotter.show" /\ (~ret.smooth \/ ret.smooth_tol = None)) =>
        ret.value = BS_get_plot(bs, ret.zero_to_efermi, ret.ylim, ret.smooth,
                                FALSE, ret.smooth_tol)

(***************************************************************************)
(* The constructors BSPlotter(bs) and BSPlotterProjected(bs).  The         *)
(* argument is an object of some class; a band structure carries its       *)
(* projections (the spins that have projection data) and its band count,   *)
(* any other object carries neither.                                       *)
(***************************************************************************)
Classes == {"BandStructureSymmLine", "BandStructure"}
ProjectionPool == {{}, {"up"}, {"up", "down"}}
BandCounts == 0..3

CtorArgs ==
    { [cls |-> c, projections |-> p, nb_bands |-> n] :
        c \in Classes, p \in ProjectionPool, n \in BandCounts }
    \cup { [cls |-> "NoneType"], [cls |-> "Dos"] }

\* lines 253-262
BSPlotter_init(arg) ==
    IF arg.cls # "BandStructureSymmLine" THEN [err |-> "ValueError"]
    ELSE [err |-> "", _bs |-> arg, _nb_bands |-> arg.nb_bands]

\* BSPlotterProjected_init, were the projections not checked
BSPlotterProjected_init_NoCheck(arg) == BSPlotter_init(arg)

\* lines 696-700
BSPlotterProjected_init(arg) ==
    IF "projections" \notin DOMAIN arg THEN [err |-> "AttributeError"]
    ELSE IF Cardinality(arg.projections) = 0 THEN [err |-> "ValueError"]
    ELSE BSPlotter_init(arg)

\* bs is the _bs of the plotter constructed last, None while there is none
InitCtor ==
    /\ NoDos
    /\ bs = None
    /\ tk = Idle
    /\ ret = [op |-> "init"]
    /\ pyplot = <<>>
    /\ settings = None
    /\ bz = None

NewBSPlotter ==
    \E arg \in CtorArgs :
        LET made == BSPlotter_init(arg)
        IN  /\ ret' = [op |-> "BSPlotter", arg |-> arg, before |-> bs,
                       value |-> made]
            /\ bs' = IF made.err = "" THEN made._bs ELSE bs
            /\ UNCHANGED <<bz, settings, pyplot, zero_at_efermi, stack, sigma, doses, history, tk>>

NewBSPlotterProjected ==
    \E arg \in CtorArgs :
        LET made == BSPlotterProjected_init(arg)
        IN  /\ ret' = [op |-> "BSPlotterProjected", arg |-> arg, before |-> bs,
                       value |-> made]
            /\ bs' = IF made.err = "" THEN made._bs ELSE bs
            /\ UNCHANGED <<bz, settings, pyplot, zero_at_efermi, stack, sigma, doses, history, tk>>

NextCtor == NewBSPlotter \/ NewBSPlotterProjected

SpecCtor == InitCtor /\ [][NextCtor]_vars

MaxBranches == 2    \* branches of a band structure handed to BSDOSPlotter

\* <<cartesian length, end_index - start_index>> of a branch
BranchShapes == { <<0, 0>>, <<3, 1>>, <<4, 2>> }

BranchSpecs ==
    [left : LabelPool, right : LabelPool, jump : BOOLEAN, shape : BranchShapes]

BranchLists ==
    { s \in UNION { [1..n -> BranchSpecs] : n \in 1..MaxBranches } : ~s[1].jump }

RECURSIVE SeqSum(_)
SeqSum(s) == IF s = <<>> THEN 0 ELSE s[1] + SeqSum(Tail(s))

BranchPoints(sp) == sp.shape[2] + 1
BranchLength(sp) == sp.shape[1]
BranchJump(sp) == IF sp.jump THEN 2 ELSE 0

\* the band structure made of a list of branch descriptions, with one band
PathOf(specs) ==
    LET Start(n) == SeqSum([m \in 1..(n - 1) |-> BranchPoints(specs[m])])
        N == Start(Len(specs) + 1)
        BranchAt(j) == CHOOSE n \in 1..Len(specs) :
                           Start(n) <= j /\ j < Start(n + 1)
        Coords(j) ==
            LET n == BranchAt(j)
                step == IF specs[n].shape[2] = 0 THEN 0
                        ELSE specs[n].shape[1] \div specs[n].shape[2]
            IN  << SeqSum([m \in 1..(n - 1) |-> BranchLength(specs[m])])
                       + (j - Start(n)) * step,
                   SeqSum([m \in 1..n |-> BranchJump(specs[m])]), 0 >>
    IN  [branches |-> [n \in 1..Len(specs) |->
                          [start_index |-> Start(n),
                           end_index |-> Start(n + 1) - 1,
                           name |-> specs[n].left \o <<"-">> \o specs[n].right]],
         kpoints  |-> [j \in 0..(N - 1) |-> [cart_coords |-> Coords(j)]],
         bands    |-> [up |-> << [j \in 0..(N - 1) |-> j - 1] >>],
         nb_bands |-> 1,
         efermi   |-> 0]

WalkPaths == { PathOf(s) : s \in BranchLists }

\* str.split(sep)
RECURSIVE Split(_, _)
Split(s, sep) ==
    LET at == {i \in 1..Len(s) : s[i] = sep}
    IN  IF at = {} THEN <<s>>
        ELSE <<SubSeq(s, 1, SetMin(at) - 1)>>
             \o Split(SubSeq(s, SetMin(at) + 1, Len(s)), sep)

\* np.linalg.norm of a vector whose length is a whole number
Norm(v) ==
    CHOOSE n \in 0..(v[1] * v[1] + v[2] * v[2] + v[3] * v[3]) :
        n * n = v[1] * v[1] + v[2] * v[2] + v[3] * v[3]

\* a / n where the quotient is a whole number
Quotient(a, n) == CHOOSE q \in (-a)..a : q * n = a

\* lines 1060-1064: the $ notation for LaTeX k-point labels
Latex(k) ==
    IF k[1] = "\\" \/ "_" \in Range(k) THEN <<"$">> \o k \o <<"$">> ELSE k

\* line 1071: "$\\mid$ "
MidSpace == <<"$", "\\", "m", "i", "d", "$", " ">>

\* lines 1050-1053: the locals before the loop over the branches
WalkStart ==
    [pc |-> "walk", idx |-> 1, xlabels |-> <<>>, xlabel_distances |-> <<>>,
     x_distances |-> <<>>, prev_right_klabel |-> None]

\* BranchXs, were the points spaced by the whole length of the branch
BranchXs_WholeSteps(first, interval, npts) ==
    [i \in 1..(npts + 1) |-> first + (i - 1) * interval * npts]

\* lines 1086-1088: the x positions of the k-points of one branch
RECURSIVE BranchXs(_, _, _)
BranchXs(first, interval, npts) ==
    IF npts = 0 THEN <<first>>
    ELSE LET xs == BranchXs(first, interval, npts - 1)
         IN  Append(xs, xs[Len(xs)] + interval)

\* WalkStep below, were the gap between two branches added to the length
WalkStep_AddsJump(b, t) ==
    LET l == b.branches[t.idx]
        parts == Split(l.name, "-")
        left_k == Latex(parts[1])
        right_k == Latex(parts[2])
        first == t.prev_right_klabel = None
        merged == [t.xlabels EXCEPT ![Len(t.xlabels)] = @ \o MidSpace \o left_k]
        labels == IF first THEN Append(t.xlabels, left_k)
                  ELSE IF t.prev_right_klabel # left_k THEN merged
                  ELSE t.xlabels
        xld0 == IF first THEN Append(t.xlabel_distances, 0)
                ELSE t.xlabel_distances
        gap == IF first THEN 0
               ELSE Norm([c \in 1..3 |->
                       b.kpoints[l.start_index].cart_coords[c]
                       - b.kpoints[l.start_index - 1].cart_coords[c]])
        distance == Norm([c \in 1..3 |->
                       b.kpoints[l.end_index].cart_coords[c]
                       - b.kpoints[l.start_index].cart_coords[c]])
        xld == Append(xld0, xld0[Len(xld0)] + gap + distance)
        npts == l.end_index - l.start_index
        distance_interval == IF npts = 0 THEN 0 ELSE Quotient(distance, npts)
    IN  [pc |-> "walk", idx |-> t.idx + 1,
         xlabels |-> Append(labels, right_k),
         xlabel_distances |-> xld,
         x_distances |-> t.x_distances
                         \o BranchXs(xld[Len(xld) - 1], distance_interval, npts),
         prev_right_klabel |-> right_k]

\* lines 1055-1088: one iteration of the loop, at branch t.idx
WalkStep(b, t) ==
    LET l == b.branches[t.idx]
        parts == Split(l.name, "-")
    IN  IF Len(parts) # 2 THEN [t EXCEPT !.pc = "ValueError"]
        ELSE IF parts[1] = <<>> \/ parts[2] = <<>>
        THEN [t EXCEPT !.pc = "IndexError"]
        ELSE
        LET left_k == Latex(parts[1])
            right_k == Latex(parts[2])
            first == t.prev_right_klabel = None
            merged == [t.xlabels EXCEPT
                          ![Len(t.xlabels)] = @ \o MidSpace \o left_k]
            labels == IF first THEN Append(t.xlabels, left_k)
                      ELSE IF t.prev_right_klabel # left_k THEN merged
                      ELSE t.xlabels
            xld0 == IF first THEN Append(t.xlabel_distances, 0)
                    ELSE t.xlabel_distances
            distance == Norm([c \in 1..3 |->
                           b.kpoints[l.end_index].cart_coords[c]
                           - b.kpoints[l.start_index].cart_coords[c]])
            xld == Append(xld0, xld0[Len(xld0)] + distance)
            npts == l.end_index - l.start_index
            \* distance / 0 is inf or nan, with a warning, and is not used
            distance_interval == IF npts = 0 THEN 0
                                 ELSE Quotient(distance, npts)
        IN  [pc |-> "walk", idx |-> t.idx + 1,
             xlabels |-> Append(labels, right_k),
             xlabel_distances |-> xld,
             x_distances |-> t.x_distances
                             \o BranchXs(xld[Len(xld) - 1], distance_interval, npts),
             prev_right_klabel |-> right_k]

RECURSIVE Walk(_, _)
Walk(b, t) ==
    IF t.pc # "walk" \/ t.idx > Len(b.branches) THEN t
    ELSE Walk(b, WalkStep(b, t))

DefaultSettings ==
    [bs_projection |-> <<"elements">>, dos_projection |-> <<"elements">>,
     vb_energy_range |-> 4, cb_energy_range |-> 4, fixed_cb_energy |-> FALSE,
     bs_legend |-> <<"best">>, dos_legend |-> <<"best">>]

InitWalk ==
    /\ NoDos
    /\ bs \in WalkPaths
    /\ tk = Idle
    /\ ret = [op |-> "init"]
    /\ pyplot = <<>>
    /\ settings = DefaultSettings
    /\ bz = None

WalkCall ==
    /\ tk.pc = "idle"
    /\ tk' = WalkStart
    /\ ret' = [op |-> "call"]
    /\ UNCHANGED <<bz, settings, pyplot, zero_at_efermi, stack, sigma, doses, history, bs>>

WalkLoop ==
    /\ tk.pc = "walk" /\ tk.idx <= Len(bs.branches)
    /\ tk' = WalkStep(bs, tk)
    /\ UNCHANGED <<bz, settings, pyplot, zero_at_efermi, stack, sigma, doses, history, ret, bs>>

WalkReturn ==
    /\ tk.pc # "idle" /\ (tk.pc = "walk" => tk.idx > Len(bs.branches))
    /\ ret' = [op |-> "walk", err |-> IF tk.pc = "walk" THEN "" ELSE tk.pc,
               xlabels |-> tk.xlabels,
               xlabel_distances |-> tk.xlabel_distances,
               x_distances |-> tk.x_distances]
    /\ tk' = Idle
    /\ UNCHANGED <<bz, settings, pyplot, zero_at_efermi, stack, sigma, doses, history, bs>>

NextWalk == WalkCall \/ WalkLoop \/ WalkReturn

SpecWalk == InitWalk /\ [][NextWalk]_vars

(***************************************************************************)
(* Claims about the tick walk of BSDOSPlotter.get_plot.                    *)
(***************************************************************************)
LeftLabel(br) == Latex(Split(br.name, "-")[1])
RightLabel(br) == Latex(Split(br.name, "-")[2])

\* the square of the cartesian length of a branch
SquaredLength(b, br) ==
    LET d == [c \in 1..3 |-> b.kpoints[br.end_index].cart_coords[c]
                             - b.kpoints[br.start_index].cart_coords[c]]
    IN  d[1] * d[1] + d[2] * d[2] + d[3] * d[3]

\* C18: after the walk over n >= 1 branches xlabels and xlabel_distances
\* have n + 1 entries; xlabel_distances starts at 0 and grows by the
\* cartesian length of each branch and by nothing else; the tick shared by
\* two branches carries 'right$\mid$ left' where the right label of the
\* first differs from the left label of the second, and the one label
\* otherwise.
C18_TickWalk ==
    (ret.op = "walk" /\ ret.err = "") =>
        LET n == Len(bs.branches)
            xl == ret.xlabels
            xd == ret.xlabel_distances
        IN  /\ n >= 1
            /\ Len(xl) = n + 1 /\ Len(xd) = n + 1
            /\ xd[1] = 0
            /\ \A b \in 1..n :
                   /\ xd[b + 1] >= xd[b]
                   /\ (xd[b + 1] - xd[b]) * (xd[b + 1] - xd[b])
                          = SquaredLength(bs, bs.branches[b])
            /\ xl[1] = LeftLabel(bs.branches[1])
            /\ xl[n + 1] = RightLabel(bs.branches[n])
            /\ \A b \in 1..(n - 1) :
                   LET right == RightLabel(bs.branches[b])
                       left == LeftLabel(bs.branches[b + 1])
                   IN  xl[b + 1] = IF right # left
                                   THEN right \o MidSpace \o left
                                   ELSE right

\* two branches of non-zero length with a gap between them and different
\* labels on the two sides of the gap
C18_Witness ==
    /\ ret.op = "walk" /\ ret.err = ""
    /\ Len(bs.branches) = 2
    /\ bs.kpoints[bs.branches[2].start_index].cart_coords
           # bs.kpoints[bs.branches[1].end_index].cart_coords
    /\ RightLabel(bs.branches[1]) # LeftLabel(bs.branches[2])
    /\ ret.xlabels[2] = <<"$", "\\", "S", "$">> \o MidSpace \o <<"G">>
    /\ ret.xlabel_distances = <<0, 3, 7>>

\* C19: for branches with end_index > start_index that tile the k-points,
\* x_distances has one entry per k-point (the length of every band), the
\* entries of branch b run evenly spaced from xlabel_distances[b] to
\* xlabel_distances[b + 1], the list is non-decreasing and ends at the last
\* tick.
C19_KpointPositions ==
    (/\ ret.op = "walk" /\ ret.err = ""
     /\ \A b \in 1..Len(bs.branches) :
            bs.branches[b].end_index > bs.branches[b].start_index) =>
        LET x == ret.x_distances
            xd == ret.xlabel_distances
            nk == Cardinality(DOMAIN bs.kpoints)
        IN  /\ Len(x) = nk
            /\ \A spin \in DOMAIN bs.bands : \A i \in 1..bs.nb_bands :
                   Cardinality(DOMAIN bs.bands[spin][i]) = Len(x)
            /\ \A b \in 1..Len(bs.branches) :
                   LET br == bs.branches[b]
                       npts == br.end_index - br.start_index
                   IN  \A i \in 0..npts :
                           npts * (x[br.start_index + i + 1] - xd[b])
                               = i * (xd[b + 1] - xd[b])
            /\ \A j \in 1..(Len(x) - 1) : x[j] <= x[j + 1]
            /\ x[Len(x)] = xd[Len(xd)]

\* two branches, the second with an interior k-point
C19_Witness ==
    /\ ret.op = "walk" /\ ret.err = ""
    /\ Len(bs.branches) = 2
    /\ ret.x_distances = <<0, 3, 3, 5, 7>>
    /\ ret.xlabel_distances = <<0, 3, 7>>

(***************************************************************************)
(* BSDOSPlotter.get_plot(bs, dos).  The band structure and the DOS belong  *)
(* to one compound.  A fraction is a pair <<numerator, denominator>> in    *)
(* lowest terms; an optional string is None or <<string>>.                 *)
(***************************************************************************)
RECURSIVE GCD(_, _)
GCD(a, b) == IF b = 0 THEN a ELSE GCD(b, a % b)

Abs(a) == IF a < 0 THEN -a ELSE a

\* the fraction n / d, d > 0
Frac(n, d) ==
    LET g == GCD(Abs(n), d) IN IF n = 0 THEN <<0, 1>> ELSE <<n \div g, d \div g>>

FracAdd(p, q) == Frac(p[1] * q[2] + q[1] * p[2], p[2] * q[2])
FracHalf(p) == Frac(p[1], 2 * p[2])

\* str.lower() of a projection setting
Lower(s) == IF s = "Elements" THEN "elements" ELSE s

\* the elements of the compound, in the order of its composition
Compounds ==
    { <<"Si">>, <<"Ga", "As">>, <<"Ba", "Ti", "O">>, <<"Cu", "Zn", "Sn", "S">> }

ElementIndex(elements, el) == CHOOSE k \in 1..Len(elements) : elements[k] = el

\* what bs.get_projection_on_elements() returns for a band structure with
\* projections: per spin, band and k-point the weight of every element
ProjectionsOf(elements, spins, nb, kpts) ==
    [spin \in spins |->
        [i \in 1..nb |->
            [j \in kpts |->
                [el \in Range(elements) |->
                    IF j = 0 THEN 0
                    ELSE (ElementIndex(elements, el) * i + j
                          + (IF spin = "down" THEN 1 ELSE 0)) % 3]]]]

PlotBranches ==
    { << [left |-> <<"G">>, right |-> <<"\\", "S">>, jump |-> FALSE,
          shape |-> <<4, 2>>] >>,
      << [left |-> <<"G">>, right |-> <<"K", "_", "1">>, jump |-> FALSE,
          shape |-> <<3, 1>>],
         [left |-> <<"\\", "S">>, right |-> <<"G">>, jump |-> TRUE,
          shape |-> <<4, 2>>] >> }

\* the band structures of a compound: a path, one or two spins, a band gap
\* (bs.get_band_gap()["energy"]) and the element projections or none
PlotBandStructures(elements) ==
    { [branches |-> p.branches, kpoints |-> p.kpoints,
       bands |-> [spin \in spins |->
                     << [j \in DOMAIN p.kpoints |->
                            (j % 2) - 2 + (IF spin = "down" THEN 1 ELSE 0)],
                        [j \in DOMAIN p.kpoints |-> 4 - (j % 2)] >>],
       nb_bands |-> 2,
       efermi |-> 1,
       band_gap |-> [energy |-> gap],
       projection_on_elements |->
           IF projected
           THEN ProjectionsOf(elements, spins, 2, DOMAIN p.kpoints)
           ELSE <<>>] :
        p \in { PathOf(s) : s \in PlotBranches },
        spins \in { {"up"}, {"up", "down"} },
        gap \in {0, 2},
        projected \in BOOLEAN }

\* the DOS of a compound on the energies -5, -3, .., 5 around efermi = 1:
\* total, per element and per orbital type, for one or two spins
DosEnergies == <<-4, -2, 0, 2, 4, 6>>
PlotDoses(elements) ==
    { [elements |-> elements,
       efermi |-> 1,
       energies |-> DosEnergies,
       densities |-> [spin \in spins |->
                        [n \in 1..Len(DosEnergies) |->
                            IF spin = "up" THEN n ELSE 2 * n]],
       element_dos |-> [el \in Range(elements) |->
                          [spin \in spins |->
                              [n \in 1..Len(DosEnergies) |->
                                  ElementIndex(elements, el)]]],
       spd_dos |-> [orb \in {"s", "p"} |->
                      [spin \in spins |->
                          [n \in 1..Len(DosEnergies) |->
                              IF orb = "s" THEN 1 ELSE n - 1]]]] :
        spins \in { {"up"}, {"up", "down"} } }

Projections == { None, <<"elements">>, <<"Elements">> }
DosProjections == { None, <<"elements">>, <<"orbitals">> }
Legends == { None, <<"best">> }

\* lines 982-1017: the settings a BSDOSPlotter can be made with
SettingsPool ==
    [bs_projection : Projections, dos_projection : DosProjections,
     vb_energy_range : {4, 2}, cb_energy_range : {4, 3},
     fixed_cb_energy : BOOLEAN, bs_legend : Legends, dos_legend : Legends]

\* lines 1038-1043: whether the element projection of the bands is given up
ProjectionFallback(self, b, elements) ==
    /\ Truthy(self.bs_projection)
    /\ Lower(self.bs_projection[1]) = "elements"
    /\ (Len(elements) \notin {2, 3} \/ b.projection_on_elements = <<>>)

\* EnergyRange, were the band gap added also with fixed_cb_energy
EnergyRange_AlwaysGap(self, b) ==
    << -self.vb_energy_range, self.cb_energy_range + b.band_gap.energy >>

\* lines 1046-1048: emin and emax
EnergyRange(self, b) ==
    << -self.vb_energy_range,
       IF self.fixed_cb_energy THEN self.cb_energy_range
       ELSE self.cb_energy_range + b.band_gap.energy >>

\* SpinColor, were both spins drawn in black
SpinColor_AllBlack(spin) == << <<0, 1>>, <<0, 1>>, <<0, 1>> >>

\* lines 1290-1292: black for spin up, blue for spin down
SpinColor(spin) ==
    IF spin = "up" THEN << <<0, 1>>, <<0, 1>>, <<0, 1>> >>
    ELSE << <<0, 1>>, <<0, 1>>, <<1, 1>> >>

\* sum(projs.values())
RECURSIVE SumValues(_, _)
SumValues(projs, keys) ==
    IF keys = {} THEN 0
    ELSE LET e == CHOOSE x \in keys : TRUE
         IN  projs[e] + SumValues(projs, keys \ {e})

\* ElementColor, were the channels left in the order of the elements
ElementColor_ElementOrder(projs, elements) ==
    LET total == SumValues(projs, DOMAIN projs)
    IN  [idx \in 1..3 |->
            IF total > 0 /\ idx <= Len(elements)
            THEN Frac(projs[elements[idx]], total)
            ELSE <<0, 1>>]

\* lines 1281-1288: the colour of one band at one k-point from its element
\* projections
ElementColor(projs, elements) ==
    LET total == SumValues(projs, DOMAIN projs)
        c == [idx \in 1..3 |->
                 IF total > 0 /\ idx <= Len(elements)
                 THEN Frac(projs[elements[idx]], total)
                 ELSE <<0, 1>>]
    IN  << c[2], c[3], c[1] >>

\* lines 1258-1299
get_colordata(b, elements, bs_projection) ==
    [spin \in DOMAIN b.bands |->
        [band_idx \in 1..b.nb_bands |->
            [k_idx \in DOMAIN b.kpoints |->
                IF Truthy(bs_projection) /\ Lower(bs_projection[1]) = "elements"
                THEN ElementColor(
                         b.projection_on_elements[spin][band_idx][k_idx],
                         elements)
                ELSE SpinColor(spin)]]]

\* lines 1229-1256: the line collection of one band; k is 1-based, e and
\* rgb are indexed by the 0-based k-point index
rgbline(k, e, rgb, linestyles) ==
    [seg |-> [i \in 1..(Len(k) - 1) |->
                 << <<k[i], e[i - 1]>>, <<k[i + 1], e[i]>> >>],
     colors |-> [i \in 1..(Len(k) - 1) |->
                    << FracHalf(FracAdd(rgb[i - 1][1], rgb[i][1])),
                       FracHalf(FracAdd(rgb[i - 1][2], rgb[i][2])),
                       FracHalf(FracAdd(rgb[i - 1][3], rgb[i][3])),
                       <<1, 1>> >>],
     linestyles |-> linestyles]

\* lines 1132-1141: the coloured lines of the bands
BandLines(b, x_distances, colordata) ==
    Concat([n \in 1..Len(SpinOrder) |->
        IF SpinOrder[n] \in DOMAIN b.bands
        THEN [band_idx \in 1..b.nb_bands |->
                 rgbline(x_distances,
                         [j \in DOMAIN b.kpoints |->
                             b.bands[SpinOrder[n]][band_idx][j] - b.efermi],
                         colordata[SpinOrder[n]][band_idx],
                         IF SpinOrder[n] = "up" THEN "solid" ELSE "dotted")]
        ELSE <<>>])

\* lines 1143-1177: the curves drawn on the DOS axis for one spin, or the
\* exception raised by self.dos_projection.lower()
DosCurves(self, dos, spin) ==
    LET dos_energies == [n \in 1..Len(dos.energies) |->
                            dos.energies[n] - dos.efermi]
        Curve(dens, color, label) ==
            [x |-> [n \in 1..Len(dens) |-> dens[n] * SpinInt(spin)],
             y |-> dos_energies, color |-> color,
             label |-> IF spin = "up" THEN <<label>> ELSE None]
        colors == <<"b", "r", "g", "m", "y", "c", "k", "w">>
        orbitals == <<"s", "p", "d", "f">>
        total == << Curve(dos.densities[spin], "grey", "total") >>
    IN  IF self.dos_projection = None THEN [err |-> "AttributeError"]
        ELSE IF Lower(self.dos_projection[1]) = "elements"
        THEN [err |-> "",
              curves |-> total \o
                  [idx \in 1..Len(dos.elements) |->
                      Curve(dos.element_dos[dos.elements[idx]][spin],
                            colors[idx], dos.elements[idx])]]
        ELSE IF Lower(self.dos_projection[1]) = "orbitals"
        THEN [err |-> "",
              curves |-> total \o Concat(
                  [idx \in 1..4 |->
                      IF orbitals[idx] \in DOMAIN dos.spd_dos
                      THEN << Curve(dos.spd_dos[orbitals[idx]][spin],
                                    colors[idx], orbitals[idx]) >>
                      ELSE <<>>])]
        ELSE [err |-> "", curves |-> total]

\* lines 1179-1192: the x range of the DOS axis, in fractions, or the
\* exception raised by next() or by max() of an empty slice
DosXlim(dos, emin, emax) ==
    LET dos_energies == [n \in 1..Len(dos.energies) |->
                            dos.energies[n] - dos.efermi]
        above == {n \in 1..Len(dos_energies) : dos_energies[n] >= emin}
        below == {n \in 1..Len(dos_energies) : dos_energies[n] <= emax}
    IN  IF above = {} \/ below = {} THEN [err |-> "StopIteration"]
        ELSE
        LET emin_idx == SetMin(above) - 1
            emax_idx == SetMax(below)
            Slice(d, from, to) ==
                {d[n] : n \in {m \in 1..Len(d) : from < m /\ m <= to}}
            down == IF "down" \in DOMAIN dos.densities
                    THEN Slice(dos.densities["down"], emin_idx, emax_idx + 1)
                    ELSE {0}
            up == Slice(dos.densities["up"], emin_idx, emax_idx)
        IN  IF down = {} \/ up = {} THEN [err |-> "ValueError"]
            ELSE LET dos_xmin == IF "down" \in DOMAIN dos.densities
                                 THEN Frac(-21 * SetMax(down), 20)
                                 ELSE <<0, 1>>
                     upmax == Frac(21 * SetMax(up), 20)
                     lowabs == Frac(Abs(dos_xmin[1]), dos_xmin[2])
                 IN  [err |-> "",
                      xlim |-> << dos_xmin,
                                  IF upmax[1] * lowabs[2] >= lowabs[1] * upmax[2]
                                  THEN upmax ELSE lowabs >>]

\* lines 1197-1217: the legend of the band-structure axis
BsLegend(self, elements, bs_projection) ==
    IF ~Truthy(self.bs_legend) THEN [shown |-> FALSE, handles |-> <<>>]
    ELSE [shown |-> TRUE,
          handles |->
              IF bs_projection = None
              THEN << [color |-> "k", linestyle |-> "solid",
                       label |-> "spin up"],
                      [color |-> "b", linestyle |-> "dotted",
                       label |-> "spin down"] >>
              ELSE IF Lower(bs_projection[1]) = "elements"
              THEN [idx \in 1..Len(elements) |->
                       [color |-> <<"b", "r", "g">>[idx],
                        linestyle |-> "solid", label |-> elements[idx]]]
              ELSE <<>>]

\* lines 1019-1226; self and the colordata of line 1130 are returned with
\* the plot
BSDOS_get_plot(self, b, dos) ==
    LET elements == dos.elements
        fallback == ProjectionFallback(self, b, elements)
        bs_projection == IF fallback THEN None ELSE self.bs_projection
        warned == IF fallback THEN <<"Cannot get element projected data">>
                  ELSE <<>>
        emin == EnergyRange(self, b)[1]
        emax == EnergyRange(self, b)[2]
        walk == Walk(b, WalkStart)
        Raise(e) == [err |-> e, self |-> self, warnings |-> warned]
    IN  IF walk.pc # "walk" THEN Raise(walk.pc)
        ELSE
        LET last == walk.x_distances[Len(walk.x_distances)]
            colordata == get_colordata(b, elements, bs_projection)
            spins == SelectSeq(SpinOrder, LAMBDA sp : sp \in DOMAIN dos.densities)
            drawn == [n \in 1..Len(spins) |-> DosCurves(self, dos, spins[n])]
            xrange == DosXlim(dos, emin, emax)
        IN  IF \E n \in 1..Len(drawn) : drawn[n].err # ""
            THEN Raise("AttributeError")
            ELSE IF xrange.err # "" THEN Raise(xrange.err)
            ELSE
            LET curves == Concat([n \in 1..Len(drawn) |-> drawn[n].curves])
            IN  [err |-> "", self |-> self, warnings |-> warned,
                 colordata |-> colordata,
                 bs_ax |->
                    [xlim |-> <<0, last>>,
                     ylim |-> <<emin, emax>>,
                     xticks |-> walk.xlabel_distances,
                     xticklabels |-> walk.xlabels,
                     hlines |-> << [y |-> 0, xmin |-> 0, xmax |-> last] >>,
                     lines |-> BandLines(b, walk.x_distances, colordata),
                     legend |-> BsLegend(self, elements, bs_projection)],
                 dos_ax |->
                    [ylim |-> <<emin, emax>>,
                     xlim |-> xrange.xlim,
                     curves |-> curves,
                     hlines |-> << [y |-> 0, xmin |-> xrange.xlim[1],
                                    xmax |-> xrange.xlim[2]] >>,
                     legend |->
                        IF Truthy(self.dos_legend)
                        THEN [shown |-> TRUE,
                              handles |-> SelectSeq(curves,
                                              LAMBDA c : c.label # None)]
                        ELSE [shown |-> FALSE, handles |-> <<>>]]]

\* the plotter is made with its settings; the band structure and the DOS of
\* one compound are at hand
InitBsDos ==
    /\ NoDos
    /\ \E elements \in Compounds :
       \E b \in PlotBandStructures(elements) :
       \E dos \in {d \in PlotDoses(elements) :
                       DOMAIN d.densities = DOMAIN b.bands} :
           /\ bs = b
           /\ tk = [pc |-> "idle", dos |-> dos]
    /\ ret = [op |-> "init"]
    /\ pyplot = <<>>
    /\ settings \in SettingsPool
    /\ bz = None

BsDosGetPlot ==
    LET out == BSDOS_get_plot(settings, bs, tk.dos)
    IN  /\ ret' = [op |-> "BSDOSPlotter.get_plot", bs |-> bs,
                   dos |-> tk.dos, before |-> settings, value |-> out]
        /\ settings' = out.self
        /\ UNCHANGED <<bz, pyplot, zero_at_efermi, stack, sigma, doses, history, bs, tk>>

NextBsDos == BsDosGetPlot

SpecBsDos == InitBsDos /\ [][NextBsDos]_vars

(***************************************************************************)
(* Claims about BSDOSPlotter.get_plot.                                     *)
(***************************************************************************)
\* C12: the energy window is emin = -vb_energy_range and
\* emax = cb_energy_range + band gap, or emax = cb_energy_range with
\* fixed_cb_energy; both axes get the y limits (emin, emax).
C12_EnergyRange ==
    (ret.op = "BSDOSPlotter.get_plot" /\ ret.value.err = "") =>
        LET emin == 0 - ret.before.vb_energy_range
            emax == IF ret.before.fixed_cb_energy
                    THEN ret.before.cb_energy_range
                    ELSE ret.before.cb_energy_range + ret.bs.band_gap.energy
        IN  /\ ret.value.bs_ax.ylim = <<emin, emax>>
            /\ ret.value.dos_ax.ylim = <<emin, emax>>

\* a band structure with a gap plotted with fixed_cb_energy, and one
\* without
C12_Witness ==
    /\ ret.op = "BSDOSPlotter.get_plot" /\ ret.value.err = ""
    /\ ret.bs.band_gap.energy = 2
    /\ ret.before.fixed_cb_energy
    /\ ret.before.vb_energy_range = 2
    /\ ret.value.bs_ax.ylim = <<-2, 4>>
    /\ ret.value.dos_ax.ylim = <<-2, 4>>

\* C13: with dos_projection=None get_plot completes without error and
\* draws only the total DOS.
C13_NoDosProjection ==
    (ret.op = "BSDOSPlotter.get_plot" /\ ret.before.dos_projection = None) =>
        /\ ret.value.err = ""
        /\ Len(ret.value.dos_ax.curves) = Cardinality(DOMAIN ret.dos.densities)
        /\ \A n \in 1..Len(ret.value.dos_ax.curves) :
               ret.value.dos_ax.curves[n].color = "grey"

\* the projected DOS curves of a call that names a projection
C13_ProjectedDos ==
    (/\ ret.op = "BSDOSPlotter.get_plot"
     /\ ret.before.dos_projection # None
     /\ ret.value.err = "") =>
        Len(ret.value.dos_ax.curves) > Cardinality(DOMAIN ret.dos.densities)

FallsBack(call) ==
    /\ call.before.bs_projection # None
    /\ Lower(call.before.bs_projection[1]) = "elements"
    /\ (Len(call.dos.elements) \notin {2, 3}
        \/ call.bs.projection_on_elements = <<>>)

Orbitals == <<"s", "p", "d">>

OrbitalWeight(spin, i, j, k, orb) ==
    IF orb = "s" THEN (j * (k + i)) % 3
    ELSE IF orb = "p" THEN (j + (IF spin = "down" THEN 1 ELSE 0)) % 2
    ELSE 0

ProjectedCompounds ==
    { <<"Ga", "As">>, <<"Ba", "Ti", "O">>, <<"Cu", "Zn", "Sn", "S">> }

ProjectedBandStructures ==
    { b @@ [elements |-> els,
            proj |-> [spin \in DOMAIN b.bands |->
                        [i \in 1..b.nb_bands |->
                            [j \in KIdx |->
                                [el \in Range(els) |->
                                    [orb \in Range(Orbitals) |->
                                        OrbitalWeight(spin, i, j,
                                            ElementIndex(els, el), orb)]]]]]] :
        b \in BandStructures, els \in ProjectedCompounds }

\* lines 714-719 and 721-727: the entries appended for the k-points of one
\* branch
BranchProjections(b, spin, i, br) ==
    [n \in 1..Len(BranchRange(br)) |-> b.proj[spin][i][BranchRange(br)[n]]]

\* lines 702-728: for spin down the inner loop runs over all the branches
\* for every branch of the outer loop
get_projections_by_branches(b) ==
    [n \in 1..Len(b.branches) |->
        IF is_spin_polarized(b)
        THEN (SpinStr("up") :>
                 [i \in 1..b.nb_bands |->
                     BranchProjections(b, "up", i, b.branches[n])])
             @@ (SpinStr("down") :>
                 [i \in 1..b.nb_bands |->
                     Concat([m \in 1..Len(b.branches) |->
                         BranchProjections(b, "down", i, b.branches[m])])])
        ELSE (SpinStr("up") :>
                 [i \in 1..b.nb_bands |->
                     BranchProjections(b, "up", i, b.branches[n])])]

\* lines 940-942 and 946-948: the summed orbital projection on one element
ElementWeight(entry, el) ==
    SeqSum([o \in 1..Len(Orbitals) |-> entry[el][Orbitals[o]]])

\* lines 937-954: the colour of one segment
SegmentColor(entry, elt_ordered) ==
    LET sum_e == SeqSum([k \in 1..Len(elt_ordered) |->
                     ElementWeight(entry, elt_ordered[k])])
        color == [k \in 1..Len(elt_ordered) |->
                     IF sum_e = 0 THEN <<0, 1>>
                     ELSE Frac(ElementWeight(entry, elt_ordered[k]), sum_e)]
    IN  IF Len(color) = 2 THEN <<color[1], <<0, 1>>, color[2]>> ELSE color

\* lines 899-972
get_elt_projected_plots_color(b, zero_to_efermi, elt_ordered) ==
    IF Len(b.elements) > 3 THEN [err |-> "ValueError"]
    ELSE
    LET elts == IF elt_ordered = None THEN b.elements ELSE elt_ordered
        proj == get_projections_by_branches(b)
        data == bs_plot_data(b, zero_to_efermi)
        spins == IF is_spin_polarized(b) THEN <<"up", "down">> ELSE <<"up">>
        Segments(s, br, i) ==
            [n \in 1..(Len(data.energy[br][SpinStr(s)][i]) - 1) |->
                [spin |-> s, branch |-> br, band |-> i, j |-> n - 1,
                 x |-> <<data.distances[br][n], data.distances[br][n + 1]>>,
                 y |-> <<data.energy[br][SpinStr(s)][i][n],
                         data.energy[br][SpinStr(s)][i][n + 1]>>,
                 sign |-> IF s = "down" THEN "--" ELSE "-",
                 color |-> SegmentColor(proj[br][SpinStr(s)][i][n], elts)]]
    IN  [err |-> "",
         ticks |-> maketicks(b),
         segments |->
            Concat([sn \in 1..Len(spins) |->
                Concat([br \in 1..Len(data.distances) |->
                    Concat([i \in 1..b.nb_bands |->
                        Segments(spins[sn], br, i)])])]),
         ylim |-> IF b.is_metal
                  THEN IF zero_to_efermi
                       THEN <<b.efermi - 10, b.efermi + 10>>
                       ELSE None
                  ELSE <<data.vbm[1][2] - 4, data.cbm[1][2] + 2>>]

\* the orders in which the elements can be handed over
ElementOrders(els) == { None, els, Reverse(els) }

InitProjected ==
    /\ NoDos
    /\ bs \in ProjectedBandStructures
    /\ tk = Idle
    /\ ret = [op |-> "init"]
    /\ pyplot = <<>>
    /\ settings = None
    /\ bz = None

EltProjectedPlotsColor ==
    \E zero_to_efermi \in BOOLEAN, elt_ordered \in ElementOrders(bs.elements) :
        /\ ret' = [op |-> "get_elt_projected_plots_color",
                   zero_to_efermi |-> zero_to_efermi,
                   elt_ordered |-> elt_ordered,
                   value |-> get_elt_projected_plots_color(
                                 bs, zero_to_efermi, elt_ordered)]
        /\ UNCHANGED <<bz, settings, pyplot, zero_at_efermi, stack, sigma, doses, history, bs, tk>>

NextProjected == EltProjectedPlotsColor

SpecProjected == InitProjected /\ [][NextProjected]_vars

(***************************************************************************)
(* Claims about BSPlotterProjected.get_elt_projected_plots_color.          *)
(***************************************************************************)
\* the weight of an element at a k-point: the sum over its orbitals
WeightAt(b, spin, i, kpt, el) ==
    b.proj[spin][i][kpt][el]["s"] + b.proj[spin][i][kpt][el]["p"]
        + b.proj[spin][i][kpt][el]["d"]

\* the colour of a segment is the split of the weights at k-point kpt among
\* the elements elts: the first on red, the last on blue, and the middle
\* one of three on green
ColorOfKpoint(b, seg, elts, kpt) ==
    LET W(k) == WeightAt(b, seg.spin, seg.band, kpt, elts[k])
        total == SeqSum([k \in 1..Len(elts) |-> W(k)])
        Is(c, w) == IF total = 0 THEN c[1] = 0
                    ELSE c[1] * total = w * c[2]
    IN  /\ Len(seg.color) = 3
        /\ \A c \in 1..3 : /\ seg.color[c][2] > 0
                           /\ 0 <= seg.color[c][1]
                           /\ seg.color[c][1] <= seg.color[c][2]
        /\ Is(seg.color[1], W(1))
        /\ Is(seg.color[3], W(Len(elts)))
        /\ Is(seg.color[2], IF Len(elts) = 3 THEN W(2) ELSE 0)
        /\ total > 0 =>
               FracAdd(seg.color[1], FracAdd(seg.color[2], seg.color[3]))
                   = <<1, 1>>

\* C15: for every spin, branch, band and segment starting at k-point j the
\* red, green and blue channels are the shares of the first, second and
\* last element of elt_ordered in the summed orbital projections at that
\* k-point; they lie in [0,1], sum to 1, and are all 0 when the sum is 0.
C15_ElementColors ==
    (ret.op = "get_elt_projected_plots_color" /\ ret.value.err = "") =>
        LET elts == IF ret.elt_ordered = None THEN bs.elements
                    ELSE ret.elt_ordered
        IN  \A n \in 1..Len(ret.value.segments) :
                LET seg == ret.value.segments[n]
                IN  ColorOfKpoint(bs, seg, elts,
                        bs.branches[seg.branch].start_index + seg.j)

\* C15 for the segments where the code keeps it: spin up, and spin down on
\* the first branch
C15_ElementColorsFirstBranch ==
    (ret.op = "get_elt_projected_plots_color" /\ ret.value.err = "") =>
        LET elts == IF ret.elt_ordered = None THEN bs.elements
                    ELSE ret.elt_ordered
        IN  \A n \in 1..Len(ret.value.segments) :
                LET seg == ret.value.segments[n]
                IN  (seg.spin = "up" \/ seg.branch = 1) =>
                        ColorOfKpoint(bs, seg, elts,
                            bs.branches[seg.branch].start_index + seg.j)

\* the spin-down segments of a later branch carry the colours of the
\* k-points counted from the start of the path
C15_SpinDownFromPathStart ==
    (ret.op = "get_elt_projected_plots_color" /\ ret.value.err = "") =>
        LET elts == IF ret.elt_ordered = None THEN bs.elements
                    ELSE ret.elt_ordered
        IN  \A n \in 1..Len(ret.value.segments) :
                LET seg == ret.value.segments[n]
                IN  seg.spin = "down" => ColorOfKpoint(bs, seg, elts, seg.j)

(***************************************************************************)
(* fold_point(p, lattice, coords_are_cartesian).  A lattice is its matrix, *)
(* three rows of whole numbers; coordinates, fractional and cartesian, are *)
(* whole numbers of quarters.                                              *)
(***************************************************************************)
Quarters == 4

Lattices ==
    { << <<1, 0, 0>>, <<0, 1, 0>>, <<0, 0, 1>> >>,
      << <<2, 0, 0>>, <<1, 2, 0>>, <<0, 0, 3>> >>,
      << <<1, 0, 0>>, <<5, 1, 0>>, <<0, 0, 1>> >> }

Orthogonal(L) ==
    \A r, q \in 1..3 :
        r # q => L[r][1] * L[q][1] + L[r][2] * L[q][2] + L[r][3] * L[q][3] = 0

FoldGrid == [1..3 -> (-Quarters)..Quarters]

\* lattice.get_cartesian_coords(f): the row vector f times the matrix
get_cartesian_coords(L, f) ==
    [c \in 1..3 |-> f[1] * L[1][c] + f[2] * L[2][c] + f[3] * L[3][c]]

\* lattice.get_fractional_coords(c): the inverse of get_cartesian_coords
get_fractional_coords(L, c) ==
    CHOOSE f \in FoldGrid : get_cartesian_coords(L, f) = c

SquaredDistance(a, b) ==
    (a[1] - b[1]) * (a[1] - b[1]) + (a[2] - b[2]) * (a[2] - b[2])
        + (a[3] - b[3]) * (a[3] - b[3])

\* lines 1773-1775: the n-th triple (i, j, k) of the three nested loops
Neighbour(n) == << (n \div 9) - 1, ((n \div 3) % 3) - 1, (n % 3) - 1 >>

\* np.dot((i, j, k), lattice.matrix), in quarters
LatticePoint(L, ijk) ==
    [c \in 1..3 |-> Quarters * get_cartesian_coords(L, ijk)[c]]

\* lines 1771-1780: the lattice point kept after the first n + 1 triples
RECURSIVE ClosestLatticePoint(_, _, _)
ClosestLatticePoint(L, p, n) ==
    IF n = 0 THEN LatticePoint(L, Neighbour(0))
    ELSE LET best == ClosestLatticePoint(L, p, n - 1)
             here == LatticePoint(L, Neighbour(n))
         IN  IF SquaredDistance(p, here) < SquaredDistance(p, best)
             THEN here ELSE best

\* line 1768: np.mod(p+0.5-1e-10, 1)-0.5+1e-10 maps a coordinate into the
\* interval (-1/2, 1/2]
ModOne(x) == ((x + (Quarters \div 2) - 1) % Quarters) - (Quarters \div 2) + 1

\* lines 1749-1785
fold_point(p, L, coords_are_cartesian) ==
    LET frac == IF coords_are_cartesian THEN get_fractional_coords(L, p) ELSE p
        folded == [c \in 1..3 |-> ModOne(frac[c])]
        cart == get_cartesian_coords(L, folded)
        closest_lattice_point == ClosestLatticePoint(L, cart, 26)
    IN  IF closest_lattice_point # <<0, 0, 0>>
        THEN [c \in 1..3 |-> cart[c] - closest_lattice_point[c]]
        ELSE cart

\* the arguments are drawn at the start; p is handed over in fractional or
\* in cartesian coordinates
InitFold ==
    /\ NoDos
    /\ bs = None
    /\ \E f \in FoldGrid, L \in Lattices, cartesian \in BOOLEAN :
           tk = [pc |-> "idle", lattice |-> L, frac |-> f,
                 coords_are_cartesian |-> cartesian,
                 p |-> IF cartesian THEN get_cartesian_coords(L, f) ELSE f]
    /\ ret = [op |-> "init"]
    /\ pyplot = <<>>
    /\ settings = None
    /\ bz = None

FoldPoint ==
    /\ ret.op = "init"
    /\ ret' = [op |-> "fold_point",
               value |-> fold_point(tk.p, tk.lattice, tk.coords_are_cartesian)]
    /\ UNCHANGED <<bz, settings, pyplot, zero_at_efermi, stack, sigma, doses, history, bs, tk>>

NextFold == FoldPoint

SpecFold == InitFold /\ [][NextFold]_vars

(***************************************************************************)
(* Claims about fold_point.                                                *)
(***************************************************************************)
Shifts == [1..3 -> -3..3]

\* the result differs from p by a lattice vector
DiffersByLatticeVector ==
    \E n \in Shifts :
        ret.value = [c \in 1..3 |->
            get_cartesian_coords(tk.lattice, tk.frac)[c]
                + LatticePoint(tk.lattice, n)[c]]

\* no lattice point is strictly closer to the result than the origin
InsideFirstZone ==
    \A n \in Shifts :
        SquaredDistance(ret.value, LatticePoint(tk.lattice, n))
            >= SquaredDistance(ret.value, <<0, 0, 0>>)

\* C16: for every point p and every lattice, skewed ones included, the
\* result of fold_point differs from p by an integer combination of the
\* lattice vectors and no lattice point is strictly closer to it than the
\* origin.
C16_FoldedIntoFirstZone ==
    ret.op = "fold_point" => (DiffersByLatticeVector /\ InsideFirstZone)

\* C16 for the lattices whose vectors are orthogonal, and the first half of
\* it for all lattices
C16_FoldedOrthogonal ==
    ret.op = "fold_point" =>
        /\ DiffersByLatticeVector
        /\ Orthogonal(tk.lattice) => InsideFirstZone

(***************************************************************************)
(* BoltztrapPlotter.  Its plotting methods draw with matplotlib.pyplot on  *)
(* the current figure and return pyplot; pyplot is modelled by the         *)
(* artists on the current figure, in the order drawn, and the state of its *)
(* axes.  The analyzer gives the gap and, with doping data, the chemical   *)
(* potentials of the doping levels per carrier type and temperature.       *)
(***************************************************************************)
MaxPlots == 2     \* plotting calls in one run

Temperatures == {300, 600}
Outputs == {"eig", "average"}
MuLimits == { None, <<-1, 2>> }

Analyzers ==
    { [gap |-> 1, doping |-> <<>>],
      [gap |-> 2,
       doping |-> [n |-> <<16, 20>>, p |-> <<17, 21>>],
       mu_doping |-> [c \in {"n", "p"} |->
                        [t \in Temperatures |->
                            IF c = "n" THEN <<t \div 100, 1 + (t \div 100)>>
                            ELSE <<-(t \div 100), 1 - (t \div 100)>>]]] }

NoFigure ==
    [artists |-> <<>>, xlim |-> None, ylim |-> None, yscale |-> "linear",
     legend |-> None]

\* lines 1343-1346
plot_bg_limits(b) ==
    << [type |-> "axvline", x |-> 0, color |-> "k"],
       [type |-> "axvline", x |-> b.gap, color |-> "k"] >>

\* lines 1312-1341; color holds the line style of a dashed line
plot_doping(b, temp) ==
    IF DOMAIN b.doping = {} THEN <<>>
    ELSE LET Mark(c, at) ==
                 LET mu == b.mu_doping[c][temp]
                     k == IF at = "first" THEN 1 ELSE Len(mu)
                 IN  << [type |-> "axvline", x |-> mu[k], color |-> "--"],
                        [type |-> "text", x |-> mu[k], carrier |-> c,
                         level |-> b.doping[c][k]] >>
         IN  Mark("n", "first") \o Mark("n", "last")
             \o Mark("p", "first") \o Mark("p", "last")

\* lines 1363, 1398, 1433, 1466, 1506-1508 and 1532-1534: the curve of
\* the quantity plotted
DataCurve(quantity, temp, output) ==
    << [type |-> "curve", quantity |-> quantity, temp |-> temp,
        output |-> output] >>

\* plt.xlim(-0.5, self._bz.gap + 0.5) and plt.xlim(xlim), in fractions
MuRange(b, xlim) ==
    IF xlim = None THEN << <<-1, 2>>, Frac(2 * b.gap + 1, 2) >>
    ELSE << Frac(xlim[1], 1), Frac(xlim[2], 1) >>

\* plt.plot, plt.semilogy, plt.axvline and plt.text add to the current
\* figure
DrawOn(fig, artists) == [fig EXCEPT !.artists = @ \o artists]

\* lines 1348-1377, 1379-1412, 1414-1446 and 1448-1479: the four plots
\* against the chemical potential
plot_mu(fig, b, quantity, temp, output, xlim) ==
    LET drawn == DrawOn(fig, DataCurve(quantity, temp, output)
                             \o plot_bg_limits(b) \o plot_doping(b, temp))
    IN  [drawn EXCEPT
            !.yscale = IF quantity \in {"conductivity", "power_factor"}
                       THEN "log" ELSE @,
            !.legend = IF output = "eig" THEN <<quantity>> ELSE @,
            !.xlim = MuRange(b, xlim),
            !.ylim = IF quantity = "conductivity"
                     THEN <<"1e13 * relaxation_time", "1e20 * relaxation_time">>
                     ELSE @]

\* lines 1495-1517 and 1519-1543
plot_concentration(fig, b, quantity, temp) ==
    LET drawn == DrawOn(fig, DataCurve(quantity, temp, "")
                             \o plot_bg_limits(b) \o plot_doping(b, temp))
    IN  [drawn EXCEPT !.yscale = "log",
                      !.xlim = MuRange(b, None),
                      !.ylim = <<"1e14", "1e22">>]

MuQuantities == {"seebeck", "conductivity", "power_factor", "zt"}
Concentrations == {"carriers", "hall_carriers"}

PlotsDrawn ==
    Cardinality({n \in 1..Len(pyplot.artists) : pyplot.artists[n].type = "curve"})

InitBoltz ==
    /\ NoDos
    /\ bs = None
    /\ tk = Idle
    /\ ret = [op |-> "init"]
    /\ pyplot = NoFigure
    /\ settings = None
    /\ bz \in Analyzers

PlotMu(quantity) ==
    \E temp \in Temperatures, output \in Outputs, xlim \in MuLimits :
        /\ PlotsDrawn < MaxPlots
        /\ pyplot' = plot_mu(pyplot, bz, quantity, temp, output, xlim)
        /\ ret' = [op |-> quantity, temp |-> temp, output |-> output,
                   xlim |-> xlim, before |-> pyplot, value |-> pyplot']
        /\ UNCHANGED <<bz, settings, zero_at_efermi, stack, sigma, doses, history, bs, tk>>

PlotSeebeckMu == PlotMu("seebeck")
PlotConductivityMu == PlotMu("conductivity")
PlotPowerFactorMu == PlotMu("power_factor")
PlotZtMu == PlotMu("zt")

PlotConcentration(quantity) ==
    \E temp \in Temperatures :
        /\ PlotsDrawn < MaxPlots
        /\ pyplot' = plot_concentration(pyplot, bz, quantity, temp)
        /\ ret' = [op |-> quantity, temp |-> temp, output |-> "",
                   xlim |-> None, before |-> pyplot, value |-> pyplot']
        /\ UNCHANGED <<bz, settings, zero_at_efermi, stack, sigma, doses, history, bs, tk>>

PlotCarriers == PlotConcentration("carriers")
PlotHallCarriers == PlotConcentration("hall_carriers")

NextBoltz ==
    \/ PlotSeebeckMu \/ PlotConductivityMu \/ PlotPowerFactorMu \/ PlotZtMu
    \/ PlotCarriers \/ PlotHallCarriers

SpecBoltz == InitBoltz /\ [][NextBoltz]_vars

(***************************************************************************)
(* Claims about BoltztrapPlotter.                                          *)
(***************************************************************************)
\* what one call draws: its data curve, the two band-gap lines and, with
\* doping data, the four doping lines with their texts
OwnArtists(call) ==
    DataCurve(call.op, call.temp, call.output)
    \o plot_bg_limits(bz) \o plot_doping(bz, call.temp)

\* C17: in any sequence of calls the curves and vertical lines on the plot
\* a call returns are exactly those of that call and include nothing drawn
\* by an earlier call.
C17_OnlyOwnArtists ==
    ret.op \in MuQuantities \cup Concentrations =>
        ret.value.artists = OwnArtists(ret)

\* C17 for the first call on a fresh figure; a later call adds its own
\* artists behind those already there
C17_OwnArtistsAdded ==
    ret.op \in MuQuantities \cup Concentrations =>
        /\ ret.value.artists = ret.before.artists \o OwnArtists(ret)
        /\ ret.value = pyplot

(***************************************************************************)
(* BSPlotter._maketicks on every path: the ticks of get_ticks, and the     *)
(* ticks, tick labels and vertical lines put on the axes.                  *)
(***************************************************************************)
InitMakeTicks ==
    /\ NoDos
    /\ bs \in {p @@ NoBands : p \in Paths}
    /\ tk = Idle
    /\ ret = [op |-> "init"]
    /\ pyplot = <<>>
    /\ settings = None
    /\ bz = None

MakeTicks ==
    /\ ret' = [op |-> "_maketicks", ticks |-> get_ticks(bs),
               value |-> maketicks(bs)]
    /\ UNCHANGED <<bz, settings, pyplot, zero_at_efermi, stack, sigma, doses, history, bs, tk>>

NextMakeTicks == MakeTicks

SpecMakeTicks == InitMakeTicks /\ [][NextMakeTicks]_vars

\* the positions in a list of labels that start a run of equal labels
RunStarts(label) ==
    {i \in 1..Len(label) : i = 1 \/ label[i] # label[i - 1]}

\* the k-th smallest member of a set of numbers
KthOf(s, k) == CHOOSE i \in s : Cardinality({j \in s : j < i}) = k - 1

\* C20: _maketicks keeps, of the ticks of get_ticks, the first of every run
\* of consecutive equal labels: the kept distances and labels have the same
\* length, no two adjacent kept labels are equal, and the vertical lines
\* are at exactly the distances of the kept ticks.
C20_UniqueTicks ==
    ret.op = "_maketicks" =>
        LET ticks  == ret.ticks
            drawn  == ret.value
            starts == RunStarts(ticks.label)
        IN  /\ Len(drawn.xticks) = Cardinality(starts)
            /\ Len(drawn.xticklabels) = Len(drawn.xticks)
            /\ \A k \in 1..Cardinality(starts) :
                   /\ drawn.xticks[k] = ticks.distance[KthOf(starts, k)]
                   /\ drawn.xticklabels[k] = ticks.label[KthOf(starts, k)]
            /\ \A k \in 1..(Len(drawn.xticklabels) - 1) :
                   drawn.xticklabels[k] # drawn.xticklabels[k + 1]
            /\ drawn.vlines = drawn.xticks

\* a tick of get_ticks is dropped, in the middle of the list, and others
\* are kept
C20_Witness ==
    /\ ret.op = "_maketicks"
    /\ Len(ret.value.xticks) >= 2
    /\ \E i \in 2..(Len(ret.ticks.label) - 1) :
           /\ ret.ticks.label[i] = ret.ticks.label[i - 1]
           /\ ret.ticks.label[i + 1] # ret.ticks.label[i]
    /\ Len(ret.value.vlines) < Len(ret.ticks.label)

(***************************************************************************)
(* Claims about BSDOSPlotter._get_colordata.                               *)
(***************************************************************************)
ElementProjected(call) ==
    /\ call.op = "BSDOSPlotter.get_plot"
    /\ call.value.err = ""
    /\ call.before.bs_projection # None
    /\ Lower(call.before.bs_projection[1]) = "elements"
    /\ ~FallsBack(call)

\* the position of a colour letter in an RGB triple
Channel(color) == IF color = "r" THEN 1 ELSE IF color = "g" THEN 2 ELSE 3

\* all projections of one band at one k-point, added up one element after
\* the other
RECURSIVE TotalOf(_, _)
TotalOf(projs, elements) ==
    IF elements = <<>> THEN 0
    ELSE projs[Head(elements)] + TotalOf(projs, Tail(elements))

\* the fractions p and q are the same number
SameNumber(p, q) == p[1] * q[2] = q[1] * p[2]

\* C21: with element projection and 2 or 3 elements, for every spin present,
\* band and k-point the RGB triple is (f1, f2, f0), fk being the projection
\* on elements[k] over the sum of all projections at the point and f2 = 0
\* for two elements: element 0 is blue, element 1 red, element 2 green, as
\* in the band-structure legend and the element-projected DOS curves; every
\* component is in [0,1], the components add up to 1 when the total is
\* positive, and the triple is (0,0,0) when the total is 0.
C21_ColorData ==
    ElementProjected(ret) =>
        LET elements == ret.dos.elements
            letters  == <<"b", "r", "g">>
            legend   == ret.value.bs_ax.legend
            curves   == ret.value.dos_ax.curves
        IN  /\ Len(elements) \in {2, 3}
            /\ DOMAIN ret.value.colordata = DOMAIN ret.bs.bands
            /\ \A spin \in DOMAIN ret.bs.bands :
               \A band \in 1..ret.bs.nb_bands :
               \A k \in DOMAIN ret.bs.kpoints :
                   LET projs == ret.bs.projection_on_elements[spin][band][k]
                       total == TotalOf(projs, elements)
                       rgb   == ret.value.colordata[spin][band][k]
                       f(n)  == IF n <= Len(elements) /\ total > 0
                                THEN <<projs[elements[n]], total>>
                                ELSE <<0, 1>>
                   IN  /\ Len(rgb) = 3
                       /\ SameNumber(rgb[1], f(2))
                       /\ SameNumber(rgb[2], f(3))
                       /\ SameNumber(rgb[3], f(1))
                       /\ \A c \in 1..3 :
                              /\ rgb[c][2] > 0
                              /\ 0 <= rgb[c][1] /\ rgb[c][1] <= rgb[c][2]
                       /\ total > 0 =>
                              FracAdd(rgb[1], FracAdd(rgb[2], rgb[3])) = <<1, 1>>
                       /\ total = 0 => \A c \in 1..3 : rgb[c][1] = 0
                       /\ \A n \in 1..Len(elements) :
                              SameNumber(rgb[Channel(letters[n])], f(n))
            /\ legend.shown =>
                   /\ Len(legend.handles) = Len(elements)
                   /\ \A n \in 1..Len(elements) :
                          /\ legend.handles[n].label = elements[n]
                          /\ legend.handles[n].color = letters[n]
            /\ Lower(ret.before.dos_projection[1]) = "elements" =>
                   \A n \in 1..Len(elements) :
                       \A m \in 1..Len(curves) :
                           curves[m].label = <<elements[n]>> =>
                               curves[m].color = letters[n]

\* three elements drawn with a legend and the element-projected DOS: a
\* k-point where all the weight is zero, and one where the three elements
\* have the weights 2, 0 and 1
C21_Witness ==
    /\ ElementProjected(ret)
    /\ Len(ret.dos.elements) = 3
    /\ DOMAIN ret.bs.bands = {"up", "down"}
    /\ ret.value.bs_ax.legend.shown
    /\ ret.before.dos_projection = <<"elements">>
    /\ \E k \in DOMAIN ret.bs.kpoints :
           ret.value.colordata["up"][1][k] = << <<0, 1>>, <<0, 1>>, <<0, 1>> >>
    /\ \E k \in DOMAIN ret.bs.kpoints :
           /\ ret.bs.projection_on_elements["up"][1][k]
                  = [el \in {"Ba", "Ti", "O"} |->
                        IF el = "Ba" THEN 2 ELSE IF el = "Ti" THEN 0 ELSE 1]
           /\ ret.value.colordata["up"][1][k] = << <<0, 1>>, <<1, 3>>, <<2, 3>> >>

(***************************************************************************)
(* plot_wigner_seitz.  lattice.get_wigner_seitz_cell() gives the cell as a *)
(* list of faces, a face being the list of its vertices in order around    *)
(* the face; the cells at hand are those of the orthorhombic lattices, a   *)
(* box, and those of lattices with a six-sided cell in the plane, a prism. *)
(* The axes are modelled by the segments drawn on them, in order.          *)
(***************************************************************************)
MaxExtent == 2    \* largest half extent of a cell along an axis

BoxCell(a, b, c) ==
    << << <<a, -b, -c>>, <<a, b, -c>>, <<a, b, c>>, <<a, -b, c>> >>,
       << <<-a, -b, -c>>, <<-a, b, -c>>, <<-a, b, c>>, <<-a, -b, c>> >>,
       << <<-a, b, -c>>, <<a, b, -c>>, <<a, b, c>>, <<-a, b, c>> >>,
       << <<-a, -b, -c>>, <<a, -b, -c>>, <<a, -b, c>>, <<-a, -b, c>> >>,
       << <<-a, -b, c>>, <<a, -b, c>>, <<a, b, c>>, <<-a, b, c>> >>,
       << <<-a, -b, -c>>, <<a, -b, -c>>, <<a, b, -c>>, <<-a, b, -c>> >> >>

\* the cell of the plane lattice with the vectors (8a, 4a) and (0, 8a)
Hexagon(a) ==
    << <<5 * a, 0>>, <<3 * a, 4 * a>>, <<-3 * a, 4 * a>>,
       <<-5 * a, 0>>, <<-3 * a, -4 * a>>, <<3 * a, -4 * a>> >>

PrismCell(a, c) ==
    LET h == Hexagon(a)
        At(n, z) == << h[n][1], h[n][2], z >>
        Next6(n) == (n % 6) + 1
    IN  << [n \in 1..6 |-> At(n, c)] >>
        \o [n \in 1..6 |->
               << At(n, -c), At(Next6(n), -c), At(Next6(n), c), At(n, c) >>]
        \o << [n \in 1..6 |-> At(n, -c)] >>

Cells ==
    { BoxCell(a, b, c) : a \in 1..MaxExtent, b \in 1..MaxExtent, c \in 1..MaxExtent }
    \cup { PrismCell(a, c) : a \in 1..MaxExtent, c \in 1..MaxExtent }

\* the ax argument: None, or axes that hold a segment already
AxesPool == { None, << [from |-> <<0, 0, 0>>, to |-> <<1, 0, 0>>,
                        color |-> "b", linewidth |-> 1] >> }

\* the keyword arguments; None stands for a keyword that is not given
PlotKwargs == [color : {None, <<"r">>}, linewidth : {None, <<2>>}]

\* itertools.combinations(range(n), 2), 1-based
Combinations2(n) ==
    SelectSeq([m \in 1..(n * n) |-> << ((m - 1) \div n) + 1, ((m - 1) % n) + 1 >>],
              LAMBDA pq : pq[1] < pq[2])

\* any(np.all(v == x) for x in face)
OnFace(v, face) == \E n \in 1..Len(face) : face[n] = v

\* DrawsLine, were the two faces taken in either order
DrawsLine_EitherOrder(cell, iface, jface, line) ==
    /\ iface # jface
    /\ OnFace(line[1], cell[jface])
    /\ OnFace(line[2], cell[jface])

\* lines 1633-1634
DrawsLine(cell, iface, jface, line) ==
    /\ iface < jface
    /\ OnFace(line[1], cell[jface])
    /\ OnFace(line[2], cell[jface])

\* lines 1623-1626
WithDefaults(kwargs) ==
    [color |-> IF kwargs.color = None THEN "k" ELSE kwargs.color[1],
     linewidth |-> IF kwargs.linewidth = None THEN 1 ELSE kwargs.linewidth[1]]

\* lines 1630-1635: the segments drawn, in the order of the loops
WignerSeitzLines(cell, kwargs) ==
    Concat([iface \in 1..Len(cell) |->
        LET face  == cell[iface]
            pairs == Combinations2(Len(face))
        IN  Concat([m \in 1..Len(pairs) |->
                LET line == << face[pairs[m][1]], face[pairs[m][2]] >>
                IN  Concat([jface \in 1..Len(cell) |->
                        IF DrawsLine(cell, iface, jface, line)
                        THEN << [from |-> line[1], to |-> line[2],
                                 color |-> kwargs.color,
                                 linewidth |-> kwargs.linewidth] >>
                        ELSE <<>>])])])

\* lines 1608-1637; get_ax3d_fig_plt(ax) makes new axes when ax is None
plot_wigner_seitz(cell, ax, kwargs) ==
    (IF ax = None THEN <<>> ELSE ax)
    \o WignerSeitzLines(cell, WithDefaults(kwargs))

InitWignerSeitz ==
    /\ NoDos
    /\ bs = None
    /\ \E cell \in Cells, ax \in AxesPool, kwargs \in PlotKwargs :
           tk = [pc |-> "idle", cell |-> cell, ax |-> ax, kwargs |-> kwargs]
    /\ ret = [op |-> "init"]
    /\ pyplot = <<>>
    /\ settings = None
    /\ bz = None

PlotWignerSeitz ==
    /\ ret.op = "init"
    /\ ret' = [op |-> "plot_wigner_seitz",
               value |-> plot_wigner_seitz(tk.cell, tk.ax, tk.kwargs)]
    /\ UNCHANGED <<bz, settings, pyplot, zero_at_efermi, stack, sigma, doses, history, bs, tk>>

NextWignerSeitz == PlotWignerSeitz

SpecWignerSeitz == InitWignerSeitz /\ [][NextWignerSeitz]_vars

(***************************************************************************)
(* Claims about plot_wigner_seitz.                                         *)
(***************************************************************************)
VerticesOf(cell) ==
    UNION { Range(cell[n]) : n \in 1..Len(cell) }

\* the pairs of distinct faces that both hold u and v
FacePairs(cell, u, v) ==
    { fg \in (1..Len(cell)) \X (1..Len(cell)) :
        /\ fg[1] < fg[2]
        /\ {u, v} \subseteq Range(cell[fg[1]])
        /\ {u, v} \subseteq Range(cell[fg[2]]) }

\* the segments of the call that join u and v
Joining(lines, u, v) ==
    { n \in 1..Len(lines) :
        {lines[n].from, lines[n].to} = {u, v} }

\* C22: a segment between two vertices u and v is drawn once for every
\* pair of distinct faces that both hold u and v, and only then: an edge
\* shared by exactly two faces is drawn exactly once, and two vertices that
\* are together on one face only are not joined.
C22_Skeleton ==
    ret.op = "plot_wigner_seitz" =>
        LET cell  == tk.cell
            old   == IF tk.ax = None THEN <<>> ELSE tk.ax
            added == SubSeq(ret.value, Len(old) + 1, Len(ret.value))
        IN  /\ SubSeq(ret.value, 1, Len(old)) = old
            /\ \A n \in 1..Len(added) :
                   /\ added[n].from \in VerticesOf(cell)
                   /\ added[n].to \in VerticesOf(cell)
                   /\ added[n].from # added[n].to
            /\ \A u \in VerticesOf(cell), v \in VerticesOf(cell) :
                   u # v =>
                       Cardinality(Joining(added, u, v))
                           = Cardinality(FacePairs(cell, u, v))

\* a prism drawn on axes that hold a segment: its 18 edges are drawn, and
\* two opposite corners of a six-sided face are not joined
C22_Witness ==
    /\ ret.op = "plot_wigner_seitz"
    /\ tk.ax # None
    /\ Len(tk.cell) = 8
    /\ Len(ret.value) = 19
    /\ \E u \in Range(tk.cell[1]), v \in Range(tk.cell[1]) :
           /\ u # v
           /\ FacePairs(tk.cell, u, v) = {}
           /\ Joining(ret.value, u, v) = {}
    /\ \E u \in Range(tk.cell[1]), v \in Range(tk.cell[1]) :
           /\ Cardinality(FacePairs(tk.cell, u, v)) = 1
           /\ Cardinality(Joining(ret.value, u, v)) = 1

(***************************************************************************)
(* BSPlotterProjected._get_projections_by_branches, for every choice of    *)
(* elements and orbitals.                                                  *)
(***************************************************************************)
\* the dictio argument: some elements of the compound, each with a list of
\* orbitals
Dictios(elements) ==
    { [el \in chosen |-> orbs] :
        chosen \in (SUBSET Range(elements)) \ {{}},
        orbs \in { {"s"}, {"s", "p", "d"} } }

\* self._bs.get_projections_on_elements_and_orbitals(dictio)
get_projections_on_elements_and_orbitals(b, dictio) ==
    [spin \in DOMAIN b.bands |->
        [i \in 1..b.nb_bands |->
            [j \in KIdx |->
                [el \in DOMAIN dictio |->
                    [orb \in dictio[el] |-> b.proj[spin][i][j][el][orb]]]]]]

InitBranches ==
    /\ NoDos
    /\ bs \in ProjectedBandStructures
    /\ \E dictio \in Dictios(bs.elements) :
           tk = [pc |-> "idle", dictio |-> dictio]
    /\ ret = [op |-> "init"]
    /\ pyplot = <<>>
    /\ settings = None
    /\ bz = None

GetProjectionsByBranches ==
    LET proj == get_projections_on_elements_and_orbitals(bs, tk.dictio)
    IN  /\ ret' = [op |-> "_get_projections_by_branches",
                   dictio |-> tk.dictio, proj |-> proj,
                   value |-> get_projections_by_branches(
                                 [bs EXCEPT !.proj = proj])]
        /\ UNCHANGED <<bz, settings, pyplot, zero_at_efermi, stack, sigma, doses, history, bs, tk>>

NextBranches == GetProjectionsByBranches

SpecBranches == InitBranches /\ [][NextBranches]_vars

(***************************************************************************)
(* Claims about BSPlotterProjected._get_projections_by_branches.           *)
(***************************************************************************)
\* the list for one branch, spin and band holds the projections at the
\* k-points of the branch, in order
AlignedWithBranch(call, n, spin, i) ==
    LET br   == bs.branches[n]
        list == call.value[n][SpinStr(spin)][i]
    IN  /\ Len(list) = br.end_index - br.start_index + 1
        /\ \A j \in 1..Len(list) :
               list[j] = call.proj[spin][i][br.start_index + j - 1]

\* C23: there is one entry per branch, and for every branch, every spin
\* present and every band the list has end_index - start_index + 1
\* entries, entry j being the projection at k-point start_index + j of the
\* branch, also for spin-polarized band structures with several branches.
C23_AlignedWithBranches ==
    ret.op = "_get_projections_by_branches" =>
        /\ Len(ret.value) = Len(bs.branches)
        /\ \A n \in 1..Len(bs.branches) :
               /\ DOMAIN ret.value[n] = {SpinStr(spin) : spin \in DOMAIN bs.bands}
               /\ \A spin \in DOMAIN bs.bands : \A i \in 1..bs.nb_bands :
                      AlignedWithBranch(ret, n, spin, i)

\* C23 for spin up and for band structures of one branch; the spin-down
\* list of every branch of a longer path holds the projections of the
\* whole path
C23_SpinUpAligned ==
    ret.op = "_get_projections_by_branches" =>
        /\ Len(ret.value) = Len(bs.branches)
        /\ \A n \in 1..Len(bs.branches) : \A i \in 1..bs.nb_bands :
               /\ AlignedWithBranch(ret, n, "up", i)
               /\ "down" \in DOMAIN bs.bands =>
                      LET list == ret.value[n][SpinStr("down")][i]
                      IN  /\ Len(list) = NKpts
                          /\ \A j \in 1..NKpts :
                                 list[j] = ret.proj["down"][i][j - 1]
                          /\ Len(bs.branches) = 1 =>
                                 AlignedWithBranch(ret, n, "down", i)

(***************************************************************************)
(* What DosPlotter.get_plot, save_plot, show and get_dos_dict leave in     *)
(* self._doses.  The stored entries hold arrays; an operation of get_plot  *)
(* that works in place writes either to an object made during the call or  *)
(* to the array of a stored entry.                                         *)
(***************************************************************************)
Local == <<"local">>
Stored(k, field) == <<"stored", k, field>>

\* StackTarget, were y the densities of the first entry instead of zeros
StackTarget_FirstEntry(k, spin) == Stored(1, spin)

\* lines 150-151 and 155: y[spin] is np.zeros(energies.shape), and
\* y[spin] += densities[spin] adds into it
StackTarget(k, spin) == Local

\* lines 175 and 177: energies = list(allenergies[i]); energies.reverse()
ReverseTarget(k) == Local

\* lines 147-179: the stored entries after the two loops of get_plot
RECURSIVE StoredAfterPlot(_, _, _)
StoredAfterPlot(ds, stk, k) ==
    IF k = 0 THEN ds
    ELSE LET before == StoredAfterPlot(ds, stk, k - 1)
             summed ==
                 [s \in {t \in DOMAIN before[1].densities :
                            \E m \in 1..k :
                                /\ stk
                                /\ t \in DOMAIN ds[m].densities
                                /\ StackTarget(m, t) = Stored(1, t)} |->
                     VecAdd(before[1].densities[s], ds[k].densities[s])]
             added == IF stk /\ DOMAIN summed # {}
                      THEN [before EXCEPT ![1].densities = summed @@ @]
                      ELSE before
         IN  IF "down" \in DOMAIN ds[k].densities
                /\ ReverseTarget(k) = Stored(k, "energies")
             THEN [added EXCEPT ![k].energies = Reverse(@)]
             ELSE added

PlotCalls == {"get_plot", "save_plot", "show"}

\* the plotter holds the DOSes of an add_dos_dict call; the limits of the
\* plotting calls of the run are at hand
InitDosFrame ==
    /\ zero_at_efermi \in BOOLEAN
    /\ stack \in BOOLEAN
    /\ sigma = None
    /\ \E K \in {L \in SUBSET Labels : Cardinality(L) <= MaxDict} :
       \E dos_dict \in [K -> DosPool], keys \in KeyOrders(K) :
           /\ doses = add_dos_dict(<<>>, keys, dos_dict, zero_at_efermi, sigma)
           /\ history = [j \in 1..Len(keys) |-> <<keys[j], dos_dict[keys[j]]>>]
    /\ ret = [op |-> "init"]
    /\ bs = None
    /\ \E xlim \in XLimits, ylim \in YLimits :
           tk = [pc |-> "idle", xlim |-> xlim, ylim |-> ylim, prev |-> None]
    /\ pyplot = <<>>
    /\ settings = None
    /\ bz = None

\* the collection and the plot of a plotting call
PlotOf(call) ==
    [before |-> call.before, added |-> call.added, value |-> call.value]

\* lines 121-216, 218-229 and 232-242: save_plot and show call
\* self.get_plot(xlim, ylim); value is the plot drawn, prev the plotting
\* call before this one
PlotCall(op) ==
    /\ ret' = [op |-> op, before |-> doses, added |-> Len(history),
               value |-> Dos_get_plot(doses, zero_at_efermi, stack,
                                      tk.xlim, tk.ylim)]
    /\ doses' = StoredAfterPlot(doses, stack, Len(doses))
    /\ tk' = [tk EXCEPT !.prev = IF ret.op \in PlotCalls THEN PlotOf(ret) ELSE @]
    /\ UNCHANGED <<bz, settings, pyplot, zero_at_efermi, stack, sigma, history, bs>>

FrameGetPlot == PlotCall("get_plot")
SavePlot == PlotCall("save_plot")
Show == PlotCall("show")

\* lines 109-119: jsanitize builds the dict it returns
FrameGetDosDict ==
    /\ ret' = [op |-> "get_dos_dict", before |-> doses,
               value |-> get_dos_dict(doses)]
    /\ tk' = [tk EXCEPT !.prev = IF ret.op \in PlotCalls THEN PlotOf(ret) ELSE @]
    /\ UNCHANGED <<bz, settings, pyplot, zero_at_efermi, stack, sigma, doses, history, bs>>

NextDosFrame ==
    AddDos \/ FrameGetPlot \/ SavePlot \/ Show \/ FrameGetDosDict

SpecDosFrame == InitDosFrame /\ [][NextDosFrame]_vars

====
